---- MODULE Spec2Model ----
(***************************************************************************)
(* A model of the imaging library's EXIF orientation parser                *)
(* (ReadOrientation, in both its implementations), of the                  *)
(* orientation-aware decode pipeline (decodeWithAutoOrientation) and of    *)
(* Open around it, of the orientation transform table (FixOrientation), of *)
(* the pixel scanner, of the Gaussian blur / sharpen effects with the      *)
(* parallel loops that run them, and of Mosaic.                            *)
(*                                                                         *)
(* Bytes are the integers 0..255; a stream is a sequence of bytes.         *)
(***************************************************************************)
EXTENDS Integers, Sequences, FiniteSets, TLC

VARIABLES
    gen,      \* the parameters the input stream was built from
    stream,   \* the input byte stream
    pipe,     \* bytes the parser's reader holds and has not yet handed out
    closed,   \* no more bytes will be added to the reader (end of stream)
    acc,      \* bytes gathered so far for the read in progress
    ps,       \* the parser: position in ReadOrientation and its locals
    main,     \* decodeWithAutoOrientation's goroutine (decoder, close, wait)
    task,     \* the errgroup goroutine: parse, store orient, drain
    lib,      \* one call of a pure image function: arguments and result
    rcvd      \* history: the bytes the pipe's reader has handed out so far

vars == <<gen, stream, pipe, closed, acc, ps, main, task, lib, rcvd>>

(***************************************************************************)
(* Bounds of the model.                                                    *)
(***************************************************************************)
MaxSegs == 2      \* non-APP1 segments before the APP1 segment
MaxPre == 1       \* tag records before the orientation record
MaxPad == 1       \* bytes between the IFD offset field and the IFD
MaxTail == 1      \* bytes after the last tag record
MaxJunk == 3      \* length of the arbitrary (unstructured) streams
MaxChunk == 5     \* bytes one Read of the decoder returns (or all that is left)
MaxDim == 3       \* width and height of the images given to the effects
MaxSigma == 2     \* largest sigma, in thirds (so the largest kernel radius)

(***************************************************************************)
(* Sequence helpers.                                                       *)
(***************************************************************************)
Take(s, n) == SubSeq(s, 1, n)
Drop(s, n) == SubSeq(s, n + 1, Len(s))
Min(a, b) == IF a < b THEN a ELSE b
Max(a, b) == IF a > b THEN a ELSE b
Zeros(n) == [k \in 1..n |-> 0]

(***************************************************************************)
(* Program constants: io.go, const blocks.                                 *)
(***************************************************************************)
markerSOI == 65496           \* 0xffd8
markerAPP1 == 65505          \* 0xffe1
exifHeader == 1165519206     \* 0x45786966
byteOrderBE == 19789         \* 0x4d4d
byteOrderLE == 18761         \* 0x4949
orientationTag == 274        \* 0x0112

OrientationUnspecified == 0
OrientationNormal == 1
OrientationFlipH == 2
OrientationRotate180 == 3
OrientationFlipV == 4
OrientationTranspose == 5
OrientationRotate270 == 6
OrientationTransverse == 7
OrientationRotate90 == 8

(***************************************************************************)
(* encoding/binary: a 2- or 4-byte unsigned integer in the given order.    *)
(***************************************************************************)
\* Mutant of U16: the byte order of the TIFF body ignored.
U16_IgnoreOrder(order, bs) == bs[1] * 256 + bs[2]

U16(order, bs) ==
    IF order = "LE" THEN bs[2] * 256 + bs[1] ELSE bs[1] * 256 + bs[2]

U32(order, bs) ==
    IF order = "LE"
    THEN ((bs[4] * 256 + bs[3]) * 256 + bs[2]) * 256 + bs[1]
    ELSE ((bs[1] * 256 + bs[2]) * 256 + bs[3]) * 256 + bs[4]

(***************************************************************************)
(* ReadOrientation (io.go).  The parser is a record: pc names the read the *)
(* function is at, the other fields are its locals.  n counts the bytes    *)
(* taken from the reader; err names the return statement that was taken.   *)
(***************************************************************************)
ParserInit ==
    [pc |-> "soi", marker |-> 0, byteOrder |-> "BE", skip |-> 0,
     numTags |-> 0, i |-> 0, result |-> OrientationUnspecified,
     err |-> "running", n |-> 0]

Return(p, val, why) == [p EXCEPT !.pc = "done", !.result = val, !.err = why]

\* The number of bytes the read at p.pc asks for.
Want(p) ==
    CASE p.pc = "soi" -> 2
      [] p.pc = "marker" -> 2
      [] p.pc = "size" -> 2
      [] p.pc = "skipSeg" -> p.skip
      [] p.pc = "header" -> 4
      [] p.pc = "pad" -> 2
      [] p.pc = "bom" -> 2
      [] p.pc = "magic" -> 2
      [] p.pc = "offset" -> 4
      [] p.pc = "skipOff" -> p.skip
      [] p.pc = "numTags" -> 2
      [] p.pc = "tag" -> 2
      [] p.pc = "skip10" -> 10
      [] p.pc = "skip6" -> 6
      [] p.pc = "val" -> 2
      [] OTHER -> 0

\* Check if JPEG SOI marker is present.
CheckSOI(p, bs) ==
    IF U16("BE", bs) # markerSOI
    THEN Return(p, OrientationUnspecified, "soi")
    ELSE [p EXCEPT !.pc = "marker"]

\* Find JPEG APP1 marker: the loop body after both reads.
CheckSegment(p, bs) ==
    LET size == U16("BE", bs) IN
    IF p.marker \div 256 # 255
    THEN Return(p, OrientationUnspecified, "marker")
    ELSE IF p.marker = markerAPP1
    THEN [p EXCEPT !.pc = "header"]
    ELSE IF size < 2
    THEN Return(p, OrientationUnspecified, "size")
    ELSE [p EXCEPT !.pc = "skipSeg", !.skip = size - 2]

\* Check if EXIF header is present.
CheckHeader(p, bs) ==
    IF U32("BE", bs) # exifHeader
    THEN Return(p, OrientationUnspecified, "header")
    ELSE [p EXCEPT !.pc = "pad"]

\* Read byte order information.
CheckByteOrder(p, bs) ==
    LET byteOrderTag == U16("BE", bs) IN
    IF byteOrderTag = byteOrderBE
    THEN [p EXCEPT !.pc = "magic", !.byteOrder = "BE"]
    ELSE IF byteOrderTag = byteOrderLE
    THEN [p EXCEPT !.pc = "magic", !.byteOrder = "LE"]
    ELSE Return(p, OrientationUnspecified, "bom")

\* Skip the EXIF offset.
CheckOffset(p, bs) ==
    LET offset == U32(p.byteOrder, bs) IN
    IF offset < 8
    THEN Return(p, OrientationUnspecified, "offset")
    ELSE [p EXCEPT !.pc = "skipOff", !.skip = offset - 8]

\* Mutant of TagLoop: one record more than the count is looked at.
TagLoop_OneMore(p, k) ==
    IF k <= p.numTags
    THEN [p EXCEPT !.pc = "tag", !.i = k]
    ELSE Return([p EXCEPT !.i = k], OrientationUnspecified, "notag")

\* The head of the tag loop: i < int(numTags).
TagLoop(p, k) ==
    IF k < p.numTags
    THEN [p EXCEPT !.pc = "tag", !.i = k]
    ELSE Return([p EXCEPT !.i = k], OrientationUnspecified, "notag")

\* Read the number of tags.
SetNumTags(p, bs) == TagLoop([p EXCEPT !.numTags = U16(p.byteOrder, bs)], 0)

CheckTag(p, bs) ==
    IF U16(p.byteOrder, bs) # orientationTag
    THEN [p EXCEPT !.pc = "skip10"]
    ELSE [p EXCEPT !.pc = "skip6"]

\* Mutants of CheckValue: the upper bound forgotten; no range check at all.
CheckValue_NoUpperBound(p, bs) ==
    LET val == U16(p.byteOrder, bs) IN
    IF val < 1
    THEN Return(p, OrientationUnspecified, "value")
    ELSE Return(p, val, "nil")

CheckValue_Unchecked(p, bs) == Return(p, U16(p.byteOrder, bs), "nil")

CheckValue(p, bs) ==
    LET val == U16(p.byteOrder, bs) IN
    IF val < 1 \/ val > 8
    THEN Return(p, OrientationUnspecified, "value")
    ELSE Return(p, val, "nil")

\* The parser after the read at p.pc has delivered the bytes bs.
Feed(p, bs) ==
    CASE p.pc = "soi" -> CheckSOI(p, bs)
      [] p.pc = "marker" -> [p EXCEPT !.pc = "size", !.marker = U16("BE", bs)]
      [] p.pc = "size" -> CheckSegment(p, bs)
      [] p.pc = "skipSeg" -> [p EXCEPT !.pc = "marker"]
      [] p.pc = "header" -> CheckHeader(p, bs)
      [] p.pc = "pad" -> [p EXCEPT !.pc = "bom"]
      [] p.pc = "bom" -> CheckByteOrder(p, bs)
      [] p.pc = "magic" -> [p EXCEPT !.pc = "offset"]
      [] p.pc = "offset" -> CheckOffset(p, bs)
      [] p.pc = "skipOff" -> [p EXCEPT !.pc = "numTags"]
      [] p.pc = "numTags" -> SetNumTags(p, bs)
      [] p.pc = "tag" -> CheckTag(p, bs)
      [] p.pc = "skip10" -> TagLoop(p, p.i + 1)
      [] p.pc = "skip6" -> [p EXCEPT !.pc = "val"]
      [] p.pc = "val" -> CheckValue(p, bs)
      [] OTHER -> p

\* binary.Read / io.CopyN returned an error: the read came up short.
ShortRead_Normal(p) == Return(p, OrientationNormal, "short")   \* mutant

\* Mutant of ShortRead: a short read reported as a half turn.
ShortRead_Rotate180(p) == Return(p, OrientationRotate180, "short")

ShortRead(p) == Return(p, OrientationUnspecified, "short")

\* One read of the parser against a reader that holds rest and is at its
\* end after that: the parser and the reader afterwards.
ReadFrom(p, got, rest, k) ==
    IF Len(got) + Len(rest) >= Want(p)
    THEN [p |-> [Feed(p, got \o Take(rest, k)) EXCEPT !.n = p.n + k],
          rest |-> Drop(rest, k)]
    ELSE [p |-> [ShortRead(p) EXCEPT !.n = p.n + Len(rest)], rest |-> <<>>]

\* ReadOrientation as a function of the whole stream.
RECURSIVE RunParser(_, _)
RunParser(p, s) ==
    IF p.pc = "done" THEN p
    ELSE LET r == ReadFrom(p, <<>>, s, Min(Want(p), Len(s)))
         IN RunParser(r.p, r.rest)

ReadOrientation(s) == RunParser(ParserInit, s)

\* One read of the running parser; it waits while the reader holds too few
\* bytes and may still get more.
ParserStep(phase) ==
    /\ ps.pc = phase
    /\ Len(acc) + Len(pipe) >= Want(ps) \/ closed
    /\ LET r == ReadFrom(ps, acc, pipe, Min(Want(ps) - Len(acc), Len(pipe)))
       IN /\ ps' = r.p
          /\ pipe' = r.rest
          /\ rcvd' = rcvd \o Take(pipe, Len(pipe) - Len(r.rest))
    /\ acc' = <<>>
    /\ UNCHANGED <<gen, stream, closed, main, task, lib>>

ReadSOI == ParserStep("soi")
ReadMarker == ParserStep("marker")
ReadSize == ParserStep("size")
SkipSegment == ParserStep("skipSeg")
ReadHeader == ParserStep("header")
SkipPadding == ParserStep("pad")
ReadByteOrder == ParserStep("bom")
SkipMagic == ParserStep("magic")
ReadOffset == ParserStep("offset")
SkipOffset == ParserStep("skipOff")
ReadNumTags == ParserStep("numTags")
ReadTag == ParserStep("tag")
SkipRecord == ParserStep("skip10")
SkipToValue == ParserStep("skip6")
ReadValue == ParserStep("val")

ParserNext ==
    \/ ReadSOI \/ ReadMarker \/ ReadSize \/ SkipSegment
    \/ ReadHeader \/ SkipPadding \/ ReadByteOrder \/ SkipMagic
    \/ ReadOffset \/ SkipOffset \/ ReadNumTags
    \/ ReadTag \/ SkipRecord \/ SkipToValue \/ ReadValue

(***************************************************************************)
(* The input streams.  A well-formed stream follows the byte layout of the *)
(* fixtures in TestReadOrientationFails: SOI, segs non-APP1 segments (the  *)
(* k-th with k-1 payload bytes), the APP1 marker and size, "Exif\0\0", the *)
(* byte-order mark and magic, the IFD offset 8+pad and pad bytes, the tag  *)
(* count, pre records that are not the orientation tag, the orientation    *)
(* record with value v (when hasTag), and tail further bytes.  A defect    *)
(* spoils one field; cut keeps only the first cut bytes.                   *)
(***************************************************************************)
Enc16(order, x) ==
    IF order = "LE" THEN <<x % 256, x \div 256>> ELSE <<x \div 256, x % 256>>

Enc32(order, x) ==
    IF order = "LE"
    THEN Enc16("LE", x % 65536) \o Enc16("LE", x \div 65536)
    ELSE Enc16("BE", x \div 65536) \o Enc16("BE", x % 65536)

RECURSIVE Segments(_, _)
Segments(k, g) ==
    IF k > g.segs THEN <<>>
    ELSE (IF k = 1 /\ g.defect = "marker" THEN <<0, 224>> ELSE <<255, 224>>)
         \o (IF k = 1 /\ g.defect = "size" THEN <<0, 1>> ELSE Enc16("BE", k + 1))
         \o Zeros(k - 1)
         \o Segments(k + 1, g)

RECURSIVE OtherRecords(_, _)
OtherRecords(k, g) ==
    IF k > g.pre THEN <<>>
    ELSE Enc16(g.order, 4609) \o Zeros(10) \o OtherRecords(k + 1, g)   \* id 0x1201

OrientationRecord(g) ==
    Enc16(g.order, orientationTag) \o Enc16(g.order, 3) \o Enc32(g.order, 1)
    \o Enc16(g.order, g.v) \o <<0, 0>>

\* The tag count of the IFD: a further orientation record (dup) follows the
\* others and is counted or lies behind the records counted.
Count(g) ==
    g.pre + (IF g.hasTag THEN 1 ELSE 0) + (IF g.dup = "counted" THEN 1 ELSE 0)

FullStream(g) ==
    (IF g.defect = "soi" THEN <<255, 217>> ELSE <<255, 216>>)
    \o Segments(1, g)
    \o (IF g.defect = "marker" /\ g.segs = 0 THEN <<0, 225>> ELSE <<255, 225>>)
    \o <<0, 255>>
    \o (IF g.defect = "header" THEN <<69, 120, 105, 0>> ELSE <<69, 120, 105, 102>>)
    \o <<0, 0>>
    \o (IF g.defect = "bom" THEN <<77, 73>>
        ELSE IF g.order = "LE" THEN <<73, 73>> ELSE <<77, 77>>)
    \o Enc16(g.order, 42)
    \o Enc32(g.order, IF g.defect = "offset" THEN 7 ELSE 8 + g.pad)
    \o Zeros(g.pad)
    \o Enc16(g.order, Count(g))
    \o OtherRecords(1, g)
    \o (IF g.hasTag THEN OrientationRecord(g) ELSE <<>>)
    \o (IF g.dup # "none"
        THEN OrientationRecord([g EXCEPT !.v = OrientationTranspose]) ELSE <<>>)
    \o [k \in 1..g.tail |-> 170]

Encode(g) == Take(FullStream(g), Min(g.cut, Len(FullStream(g))))

Defects == {"none", "soi", "marker", "size", "header", "bom", "offset"}
MaxStreamLen == 52 + (4 + MaxSegs) * MaxSegs + MaxPad + 12 * MaxPre + MaxTail

Shapes ==
    [kind : {"exif"}, segs : 0..MaxSegs, pad : 0..MaxPad, pre : 0..MaxPre,
     order : {"BE", "LE"}, hasTag : BOOLEAN, v : 0..9, tail : 0..MaxTail,
     defect : Defects, cut : 0..MaxStreamLen,
     dup : {"none", "counted", "uncounted"}]

Gens ==
    {g \in Shapes :
        /\ g.hasTag \/ g.v = 0
        /\ g.defect = "size" => g.segs >= 1
        /\ g.defect # "none" => g.cut = MaxStreamLen
        /\ g.cut < MaxStreamLen => g.cut < Len(FullStream(g))
        /\ g.dup # "none" =>
              /\ g.segs = 0 /\ g.pad = 0 /\ g.tail = 0
              /\ g.defect = "none" /\ g.cut = MaxStreamLen}

\* Arbitrary short streams over the bytes the first checks look at.
JunkBytes == {0, 216, 225, 255}
JunkStreams == UNION {[1..k -> JunkBytes] : k \in 0..MaxJunk}
JunkGen ==
    [kind |-> "junk", segs |-> 0, pad |-> 0, pre |-> 0, order |-> "BE",
     hasTag |-> FALSE, v |-> 0, tail |-> 0, defect |-> "none", cut |-> 0,
     dup |-> "none"]

(***************************************************************************)
(* ReadOrientation called on a stream held in full by its reader (a file,  *)
(* a strings.Reader): the calls of TestReadOrientation.                    *)
(***************************************************************************)
Idle == [pc |-> "idle"]

ParseInit ==
    /\ \/ \E g \in Gens : gen = g /\ stream = Encode(g)
       \/ gen = JunkGen /\ stream \in JunkStreams
    /\ pipe = stream
    /\ closed = TRUE
    /\ acc = <<>>
    /\ ps = ParserInit
    /\ main = Idle
    /\ task = Idle
    /\ lib = Idle
    /\ rcvd = <<>>

ParseSpec == ParseInit /\ [][ParserNext]_vars

(***************************************************************************)
(* Claims about ReadOrientation, checked under ParseSpec.                  *)
(***************************************************************************)
Returned == ps.pc = "done"
Untruncated == gen.kind = "exif" /\ gen.cut = MaxStreamLen
Failures == {"short", "soi", "marker", "size", "header", "bom", "offset", "value"}

\* C1: ReadOrientation fails closed.  Whenever a read came up short or a
\* validity check failed, at whichever read of the parser, the result is
\* OrientationUnspecified; and a stream built with one spoiled field (SOI,
\* marker upper byte, segment size < 2, header, byte-order mark, offset < 8,
\* orientation value outside 1..8) is rejected by exactly that check.
C1_FailsClosed ==
    Returned =>
        /\ ps.err \in Failures => ps.result = OrientationUnspecified
        /\ (Untruncated /\ gen.defect # "none") =>
               ps.err = gen.defect /\ ps.result = OrientationUnspecified
        /\ (Untruncated /\ gen.defect = "none" /\ gen.hasTag /\ gen.v \notin 1..8) =>
               ps.err = "value" /\ ps.result = OrientationUnspecified

C1_Witness ==
    /\ Returned /\ Untruncated /\ gen.defect = "none" /\ gen.hasTag
    /\ gen.v = 9 /\ gen.order = "LE" /\ ps.err = "value" /\ ps.result = 0

\* C2: on a well-formed stream whose orientation record carries v in 1..8
\* ReadOrientation returns exactly v, for big-endian and for little-endian
\* TIFF bodies, any number of non-APP1 segments and of other tag records.
C2_ReturnsValue ==
    (Returned /\ Untruncated /\ gen.defect = "none" /\ gen.hasTag /\ gen.v \in 1..8)
        => ps.result = gen.v /\ ps.err = "nil"

C2_Witness ==
    /\ Returned /\ Untruncated /\ gen.defect = "none" /\ gen.hasTag
    /\ gen.order = "LE" /\ gen.segs = MaxSegs /\ gen.pre = MaxPre /\ gen.pad = MaxPad
    /\ gen.v = 6 /\ ps.result = 6

\* Every step of the parser lowers this measure: it takes bytes from a
\* finite stream, and the two reads that may take none (a skip of 0 bytes)
\* move to a read of lower rank.
Rank(pc) ==
    CASE pc = "done" -> 0
      [] pc = "marker" -> 1
      [] pc = "size" -> 2
      [] pc = "skipSeg" -> 3
      [] pc = "numTags" -> 4
      [] pc = "skipOff" -> 5
      [] OTHER -> 6

Measure == 32 * Len(pipe) + Rank(ps.pc)

\* C8: on every finite stream ReadOrientation terminates (it is never stuck
\* before it returns, and every step lowers Measure) and its result is an
\* integer in 0..8.
C8_TerminatesInRange ==
    /\ [](ps.result \in 0..8 /\ (~Returned => ENABLED ParserNext))
    /\ [][Measure' < Measure]_vars

C8_Witness ==
    /\ Returned /\ gen.kind = "junk" /\ Len(stream) = MaxJunk
    /\ ps.err = "short" /\ ps.result = 0

\* C9 as stated: every proper prefix of a stream that yields v in 1..8
\* yields 0.
C9_EveryPrefixUnspecified ==
    (Returned /\ ps.result \in 1..8) =>
        \A k \in 0..(Len(stream) - 1) :
            ReadOrientation(Take(stream, k)).result = OrientationUnspecified

\* C9 amended: every prefix shorter than the bytes ReadOrientation took from
\* the stream yields 0 (and every prefix at least that long yields v).
C9_ConsumedPrefixUnspecified ==
    (Returned /\ ps.result \in 1..8) =>
        \A k \in 0..Len(stream) :
            ReadOrientation(Take(stream, k)).result =
                IF k < ps.n THEN OrientationUnspecified ELSE ps.result

C9_Witness ==
    /\ Returned /\ ps.result = 3 /\ gen.tail = MaxTail /\ gen.pre = MaxPre
    /\ ps.n = Len(stream) - 2 - MaxTail
    /\ ReadOrientation(Take(stream, ps.n - 1)).err = "short"

\* The records the stream holds after the tag count, and where they start.
Present(g) ==
    g.pre + (IF g.hasTag THEN 1 ELSE 0) + (IF g.dup # "none" THEN 1 ELSE 0)

RecordsStart(g) == Len(FullStream(g)) - g.tail - 12 * Present(g)

\* C20: among the first count records the first one with id 0x0112 decides:
\* the result is its value if that is in 1..8 and 0 otherwise, the parser
\* returns right after that value and reads no later record, so a later
\* valid orientation record does not override an earlier invalid one; if
\* none of the count records has id 0x0112 (also for count 0) the result is
\* 0, also when an orientation record follows the records counted.
C20_FirstOrientationRecordDecides ==
    (Returned /\ Untruncated /\ gen.defect = "none") =>
        IF gen.hasTag
        THEN /\ ps.result = (IF gen.v \in 1..8 THEN gen.v ELSE OrientationUnspecified)
             /\ ps.err = (IF gen.v \in 1..8 THEN "nil" ELSE "value")
             /\ ps.i = gen.pre
             /\ ps.n = RecordsStart(gen) + 12 * gen.pre + 10
        ELSE IF gen.dup = "counted"
        THEN /\ ps.result = OrientationTranspose /\ ps.err = "nil"
             /\ ps.n = RecordsStart(gen) + 12 * gen.pre + 10
        ELSE /\ ps.result = OrientationUnspecified /\ ps.err = "notag"
             /\ ps.i = Count(gen)
             /\ ps.n = RecordsStart(gen) + 12 * Count(gen)

\* An invalid orientation record followed by a valid, counted one.
C20_Witness ==
    /\ Returned /\ Untruncated /\ gen.defect = "none"
    /\ gen.hasTag /\ gen.v = 9 /\ gen.dup = "counted" /\ gen.pre = MaxPre
    /\ gen.order = "LE"
    /\ ps.result = OrientationUnspecified /\ ps.err = "value"
    /\ ps.n = Len(stream) - 14

\* C21: prefix safety.  For the stream S the parser ran on and every prefix
\* P of S, ReadOrientation(P) is 0 or equal to ReadOrientation(S): a
\* truncated stream never yields a nonzero value the full stream does not
\* yield, and a stream that yields 0 has no prefix that yields anything else.
C21_PrefixSafety ==
    Returned =>
        \A k \in 0..Len(stream) :
            ReadOrientation(Take(stream, k)).result
                \in {OrientationUnspecified, ps.result}

\* A stream with bytes after the value: its prefixes yield 0 up to the last
\* byte of the value and the value of the full stream from there on.
C21_Witness ==
    /\ Returned /\ ps.result = OrientationRotate270 /\ gen.order = "BE"
    /\ gen.segs = MaxSegs /\ ps.n < Len(stream)
    /\ ReadOrientation(Take(stream, ps.n - 1)).result = OrientationUnspecified
    /\ ReadOrientation(Take(stream, ps.n - 1)).n = ps.n - 1
    /\ ReadOrientation(Take(stream, ps.n)).result = OrientationRotate270

(***************************************************************************)
(* The second ReadOrientation of the repository, split into one function   *)
(* per part of the stream.  A reader is [rest, n]: the bytes it still      *)
(* holds and the bytes taken from it.  Every function returns its error    *)
(* ("nil" for none), the reader afterwards and, where it has one, a value. *)
(***************************************************************************)
Reader(s) == [rest |-> s, n |-> 0]

\* binary.Read of k bytes, or io.CopyN(io.Discard, r, k): on a reader that
\* holds fewer, the bytes it holds are taken and an error is returned.
ReadBytes(r, k) ==
    IF Len(r.rest) >= k
    THEN [err |-> "nil", bs |-> Take(r.rest, k),
          r |-> [rest |-> Drop(r.rest, k), n |-> r.n + k]]
    ELSE [err |-> "short", bs |-> <<>>,
          r |-> [rest |-> <<>>, n |-> r.n + Len(r.rest)]]

findJPEGSOIMarker(r) ==
    LET soi == ReadBytes(r, 2) IN
    IF soi.err # "nil" THEN [err |-> soi.err, r |-> soi.r]
    ELSE IF U16("BE", soi.bs) # markerSOI THEN [err |-> "soi", r |-> soi.r]
    ELSE [err |-> "nil", r |-> soi.r]

\* Mutant of findJPEGAPP1Marker: the marker is checked before the size is
\* read.
RECURSIVE findJPEGAPP1Marker_ChecksFirst(_)
findJPEGAPP1Marker_ChecksFirst(r) ==
    LET marker == ReadBytes(r, 2) IN
    IF marker.err # "nil" THEN [err |-> marker.err, r |-> marker.r]
    ELSE IF U16("BE", marker.bs) \div 256 # 255 THEN [err |-> "marker", r |-> marker.r]
    ELSE LET size == ReadBytes(marker.r, 2) IN
    IF size.err # "nil" THEN [err |-> size.err, r |-> size.r]
    ELSE IF U16("BE", marker.bs) = markerAPP1 THEN [err |-> "nil", r |-> size.r]
    ELSE IF U16("BE", size.bs) < 2 THEN [err |-> "size", r |-> size.r]
    ELSE LET skip == ReadBytes(size.r, U16("BE", size.bs) - 2) IN
    IF skip.err # "nil" THEN [err |-> skip.err, r |-> skip.r]
    ELSE findJPEGAPP1Marker_ChecksFirst(skip.r)

\* One turn of the for loop, then the loop again.
RECURSIVE findJPEGAPP1Marker(_)
findJPEGAPP1Marker(r) ==
    LET marker == ReadBytes(r, 2) IN
    IF marker.err # "nil" THEN [err |-> marker.err, r |-> marker.r]
    ELSE LET size == ReadBytes(marker.r, 2) IN
    IF size.err # "nil" THEN [err |-> size.err, r |-> size.r]
    ELSE IF U16("BE", marker.bs) \div 256 # 255 THEN [err |-> "marker", r |-> size.r]
    ELSE IF U16("BE", marker.bs) = markerAPP1 THEN [err |-> "nil", r |-> size.r]
    ELSE IF U16("BE", size.bs) < 2 THEN [err |-> "size", r |-> size.r]
    ELSE LET skip == ReadBytes(size.r, U16("BE", size.bs) - 2) IN
    IF skip.err # "nil" THEN [err |-> skip.err, r |-> skip.r]
    ELSE findJPEGAPP1Marker(skip.r)

findEXIFHeader(r) ==
    LET header == ReadBytes(r, 4) IN
    IF header.err # "nil" THEN [err |-> header.err, r |-> header.r]
    ELSE IF U32("BE", header.bs) # exifHeader THEN [err |-> "header", r |-> header.r]
    ELSE LET skip == ReadBytes(header.r, 2) IN [err |-> skip.err, r |-> skip.r]

readByteOrder(r) ==
    LET byteOrderTag == ReadBytes(r, 2) IN
    IF byteOrderTag.err # "nil"
    THEN [err |-> byteOrderTag.err, r |-> byteOrderTag.r, val |-> "nil"]
    ELSE IF U16("BE", byteOrderTag.bs) \notin {byteOrderBE, byteOrderLE}
    THEN [err |-> "bom", r |-> byteOrderTag.r, val |-> "nil"]
    ELSE LET skip == ReadBytes(byteOrderTag.r, 2) IN
         [err |-> skip.err, r |-> skip.r,
          val |-> IF skip.err # "nil" THEN "nil"
                  ELSE IF U16("BE", byteOrderTag.bs) = byteOrderBE THEN "BE"
                  ELSE "LE"]

skipEXIFOffset(r, byteOrder) ==
    LET offset == ReadBytes(r, 4) IN
    IF offset.err # "nil" THEN [err |-> offset.err, r |-> offset.r]
    ELSE IF U32(byteOrder, offset.bs) < 8 THEN [err |-> "offset", r |-> offset.r]
    ELSE LET skip == ReadBytes(offset.r, U32(byteOrder, offset.bs) - 8) IN
         [err |-> skip.err, r |-> skip.r]

readNumTags(r, byteOrder) ==
    LET numTags == ReadBytes(r, 2) IN
    [err |-> numTags.err, r |-> numTags.r,
     val |-> IF numTags.err # "nil" THEN 0 ELSE U16(byteOrder, numTags.bs)]

\* The for loop from i on.
RECURSIVE findOrientationTag(_, _, _, _)
findOrientationTag(r, byteOrder, numTags, i) ==
    IF ~(i < numTags)
    THEN [err |-> "nil", r |-> r, val |-> OrientationUnspecified]
    ELSE LET tag == ReadBytes(r, 2) IN
    IF tag.err # "nil"
    THEN [err |-> tag.err, r |-> tag.r, val |-> OrientationUnspecified]
    ELSE IF U16(byteOrder, tag.bs) # orientationTag
    THEN LET skip == ReadBytes(tag.r, 10) IN
         IF skip.err # "nil"
         THEN [err |-> skip.err, r |-> skip.r, val |-> OrientationUnspecified]
         ELSE findOrientationTag(skip.r, byteOrder, numTags, i + 1)
    ELSE LET skip == ReadBytes(tag.r, 6) IN
    IF skip.err # "nil"
    THEN [err |-> skip.err, r |-> skip.r, val |-> OrientationUnspecified]
    ELSE LET val == ReadBytes(skip.r, 2) IN
    IF val.err # "nil"
    THEN [err |-> val.err, r |-> val.r, val |-> OrientationUnspecified]
    ELSE IF U16(byteOrder, val.bs) < 1 \/ U16(byteOrder, val.bs) > 8
    THEN [err |-> "value", r |-> val.r, val |-> OrientationUnspecified]
    ELSE [err |-> "nil", r |-> val.r, val |-> U16(byteOrder, val.bs)]

\* ReadOrientation of the split implementation: its result and the bytes it
\* has taken from the reader when it returns.
ReadOrientationSplit(s) ==
    LET soi == findJPEGSOIMarker(Reader(s)) IN
    IF soi.err # "nil" THEN [result |-> OrientationUnspecified, n |-> soi.r.n]
    ELSE LET app1 == findJPEGAPP1Marker(soi.r) IN
    IF app1.err # "nil" THEN [result |-> OrientationUnspecified, n |-> app1.r.n]
    ELSE LET header == findEXIFHeader(app1.r) IN
    IF header.err # "nil" THEN [result |-> OrientationUnspecified, n |-> header.r.n]
    ELSE LET byteOrder == readByteOrder(header.r) IN
    IF byteOrder.err # "nil" THEN [result |-> OrientationUnspecified, n |-> byteOrder.r.n]
    ELSE LET offset == skipEXIFOffset(byteOrder.r, byteOrder.val) IN
    IF offset.err # "nil" THEN [result |-> OrientationUnspecified, n |-> offset.r.n]
    ELSE LET numTags == readNumTags(offset.r, byteOrder.val) IN
    IF numTags.err # "nil" THEN [result |-> OrientationUnspecified, n |-> numTags.r.n]
    ELSE LET orientation == findOrientationTag(numTags.r, byteOrder.val, numTags.val, 0) IN
    IF orientation.err # "nil"
    THEN [result |-> OrientationUnspecified, n |-> orientation.r.n]
    ELSE [result |-> orientation.val, n |-> orientation.r.n]

\* C26: the two implementations of ReadOrientation are equivalent: on every
\* stream the split one returns the value the single function returns and
\* has taken the same number of bytes from the reader when it returns.
C26_ImplementationsAgree ==
    Returned =>
        /\ ReadOrientationSplit(stream).result = ps.result
        /\ ReadOrientationSplit(stream).n = ps.n

\* Both return 8 on a little-endian stream with skipped segments, other
\* records and bytes left over; and both stop at a bad marker after its
\* size was read.
C26_Witness ==
    /\ Returned /\ gen.order = "LE" /\ gen.segs = MaxSegs /\ gen.pre = MaxPre
    /\ ps.result = OrientationRotate90 /\ ps.n < Len(stream)
    /\ ReadOrientationSplit(stream) = [result |-> OrientationRotate90, n |-> ps.n]
    /\ ReadOrientationSplit(<<255, 216, 0, 224, 0, 2, 0>>) = [result |-> 0, n |-> 6]

(***************************************************************************)
(* Images and the geometric transforms FixOrientation chooses from.  An    *)
(* image is [w, h, pix]: pix holds the pixels row by row.                  *)
(***************************************************************************)
At(img, x, y) == img.pix[y * img.w + x + 1]

\* The image of width w and height h whose pixel at <<x, y>> is f[<<x, y>>].
Coords(w, h) == (0..(w - 1)) \X (0..(h - 1))
MakeImage(w, h, f) ==
    [w |-> w, h |-> h,
     pix |-> [k \in 1..(w * h) |-> f[<<(k - 1) % w, (k - 1) \div w>>]]]

FlipH(img) ==
    MakeImage(img.w, img.h, [c \in Coords(img.w, img.h) |-> At(img, img.w - 1 - c[1], c[2])])

FlipV(img) ==
    MakeImage(img.w, img.h, [c \in Coords(img.w, img.h) |-> At(img, c[1], img.h - 1 - c[2])])

Transpose(img) ==
    MakeImage(img.h, img.w, [c \in Coords(img.h, img.w) |-> At(img, c[2], c[1])])

Transverse(img) ==
    MakeImage(img.h, img.w, [c \in Coords(img.h, img.w) |-> At(img, img.w - 1 - c[2], img.h - 1 - c[1])])

Rotate90(img) ==
    MakeImage(img.h, img.w, [c \in Coords(img.h, img.w) |-> At(img, c[2], img.h - 1 - c[1])])

Rotate180(img) ==
    MakeImage(img.w, img.h, [c \in Coords(img.w, img.h) |-> At(img, img.w - 1 - c[1], img.h - 1 - c[2])])

Rotate270(img) ==
    MakeImage(img.h, img.w, [c \in Coords(img.h, img.w) |-> At(img, img.w - 1 - c[2], c[1])])

\* Mutant of FixOrientation: the two quarter turns exchanged.
FixOrientation_TurnsSwapped(img, o) ==
    CASE o = OrientationFlipH -> FlipH(img)
      [] o = OrientationFlipV -> FlipV(img)
      [] o = OrientationRotate90 -> Rotate270(img)
      [] o = OrientationRotate180 -> Rotate180(img)
      [] o = OrientationRotate270 -> Rotate90(img)
      [] o = OrientationTranspose -> Transpose(img)
      [] o = OrientationTransverse -> Transverse(img)
      [] OTHER -> img

\* FixOrientation (io.go): the switch on the orientation flag.
FixOrientation(img, o) ==
    CASE o = OrientationNormal -> img
      [] o = OrientationFlipH -> FlipH(img)
      [] o = OrientationFlipV -> FlipV(img)
      [] o = OrientationRotate90 -> Rotate90(img)
      [] o = OrientationRotate180 -> Rotate180(img)
      [] o = OrientationRotate270 -> Rotate270(img)
      [] o = OrientationTranspose -> Transpose(img)
      [] o = OrientationTransverse -> Transverse(img)
      [] OTHER -> img

(***************************************************************************)
(* Decode and decodeWithAutoOrientation (io.go).                           *)
(*                                                                         *)
(* main is the calling goroutine: it runs image.Decode on the tee reader,  *)
(* then closes the pipe writer, waits for the errgroup and applies         *)
(* FixOrientation.  task is the errgroup goroutine: ReadOrientation on the *)
(* pipe reader, the store into orient, then io.Copy(io.Discard, pr).       *)
(* pipe holds the unread bytes of the tee's write in flight (io.Pipe has   *)
(* no buffer: Write returns once its bytes have all been read).            *)
(*                                                                         *)
(* image.Decode is a library outside the repository: it reads the stream   *)
(* in chunks of any size and returns, with an image or an error, after any *)
(* number of bytes.                                                        *)
(***************************************************************************)
Nil == [w |-> 0, h |-> 0, pix |-> <<>>]
DecodedImage == [w |-> 2, h |-> 2, pix |-> <<1, 2, 3, 4>>]

\* The streams fed to Decode: untruncated fixtures with trailing image
\* data, with and without the SOI marker, and one stream cut in the IFD.
PipeGens ==
    {g \in Gens :
        /\ g.segs = 0 /\ g.pad = 0 /\ g.pre = 0 /\ g.order = "BE"
        /\ g.tail = MaxTail /\ g.dup = "none"
        /\ g.defect \in {"none", "soi"}
        /\ g.cut = MaxStreamLen \/ (g.cut = 24 /\ g.v = 6)}

Init ==
    /\ gen \in PipeGens
    /\ stream = Encode(gen)
    /\ pipe = <<>>
    /\ closed = FALSE
    /\ acc = <<>>
    /\ \E auto \in BOOLEAN :
          /\ main = [pc |-> "decode", auto |-> auto, pos |-> 0, img |-> Nil,
                     decErr |-> "none", orient |-> OrientationUnspecified,
                     ret |-> [img |-> Nil, err |-> "none"]]
          /\ task = [pc |-> IF auto THEN "parse" ELSE "idle"]
          /\ ps = IF auto THEN ParserInit ELSE [ParserInit EXCEPT !.pc = "idle"]
    /\ lib = Idle
    /\ rcvd = <<>>

\* One Read of the decoder on the tee reader: c bytes of the input, which
\* the tee writes to the pipe before Read returns.
DecoderRead ==
    /\ main.pc = "decode"
    /\ main.pos < Len(stream)
    /\ \E c \in (1..MaxChunk) \cup {Len(stream) - main.pos} :
          LET n == Min(c, Len(stream) - main.pos) IN
          /\ main' = [main EXCEPT !.pos = main.pos + n,
                                  !.pc = IF main.auto THEN "write" ELSE "decode"]
          /\ pipe' = IF main.auto THEN SubSeq(stream, main.pos + 1, main.pos + n)
                     ELSE pipe
    /\ UNCHANGED <<gen, stream, closed, acc, ps, task, lib, rcvd>>

\* Mutant of WriteDone: the write returns while bytes are still unread.
WriteDone_Early ==
    /\ main.pc = "write"
    /\ main' = [main EXCEPT !.pc = "decode"]
    /\ UNCHANGED <<gen, stream, pipe, closed, acc, ps, task, lib, rcvd>>

\* pw.Write returns: the reader has taken every byte of the write.
WriteDone ==
    /\ main.pc = "write"
    /\ pipe = <<>>
    /\ main' = [main EXCEPT !.pc = "decode"]
    /\ UNCHANGED <<gen, stream, pipe, closed, acc, ps, task, lib, rcvd>>

\* image.Decode returns an image (io.go:49-50, 71).
DecodeOK ==
    /\ main.pc = "decode"
    /\ main.pos > 0
    /\ main' = IF main.auto
               THEN [main EXCEPT !.pc = "close", !.img = DecodedImage,
                                 !.decErr = "nil"]
               ELSE [main EXCEPT !.pc = "returned", !.img = DecodedImage,
                                 !.decErr = "nil",
                                 !.ret = [img |-> DecodedImage, err |-> "nil"]]
    /\ UNCHANGED <<gen, stream, pipe, closed, acc, ps, task, lib, rcvd>>

\* image.Decode returns an error: Decode returns it at once (io.go:72-74).
DecodeFail ==
    /\ main.pc = "decode"
    /\ main' = [main EXCEPT !.pc = "returned", !.decErr = "decode",
                            !.ret = [img |-> Nil, err |-> "decode"]]
    /\ UNCHANGED <<gen, stream, pipe, closed, acc, ps, task, lib, rcvd>>

\* Mutant of ClosePipe: the writer is closed while the decoder still runs.
ClosePipe_WhileDecoding ==
    /\ main.pc \in {"decode", "close"}
    /\ main.auto /\ ~closed
    /\ closed' = TRUE
    /\ main' = [main EXCEPT !.pc = IF main.pc = "close" THEN "wait" ELSE main.pc]
    /\ UNCHANGED <<gen, stream, pipe, acc, ps, task, lib, rcvd>>

\* pw.Close() (io.go:77).
ClosePipe ==
    /\ main.pc = "close"
    /\ closed' = TRUE
    /\ main' = [main EXCEPT !.pc = "wait"]
    /\ UNCHANGED <<gen, stream, pipe, acc, ps, task, lib, rcvd>>

\* Mutant of Wait: the caller goes on without waiting for the task.
Wait_NoJoin ==
    /\ main.pc = "wait"
    /\ main' = [main EXCEPT !.pc = "fix"]
    /\ UNCHANGED <<gen, stream, pipe, closed, acc, ps, task, lib, rcvd>>

\* eg.Wait() returns once the task has returned (io.go:80).
Wait ==
    /\ main.pc = "wait"
    /\ task.pc = "done"
    /\ main' = [main EXCEPT !.pc = "fix"]
    /\ UNCHANGED <<gen, stream, pipe, closed, acc, ps, task, lib, rcvd>>

\* Mutant of Fix: the parsed orientation not applied.
Fix_NoTransform ==
    /\ main.pc = "fix"
    /\ main' = [main EXCEPT !.pc = "returned",
                            !.ret = [img |-> main.img, err |-> "nil"]]
    /\ UNCHANGED <<gen, stream, pipe, closed, acc, ps, task, lib, rcvd>>

\* return FixOrientation(img, orient), nil (io.go:83).
Fix ==
    /\ main.pc = "fix"
    /\ main' = [main EXCEPT !.pc = "returned",
                            !.ret = [img |-> FixOrientation(main.img, main.orient),
                                     err |-> "nil"]]
    /\ UNCHANGED <<gen, stream, pipe, closed, acc, ps, task, lib, rcvd>>

\* A Read of the pipe inside binary.Read / io.CopyN that returns fewer bytes
\* than the parser still needs: it keeps them and reads again.
PartialRead ==
    /\ task.pc = "parse"
    /\ ps.pc \notin {"done", "idle"}
    /\ pipe # <<>>
    /\ Len(acc) + Len(pipe) < Want(ps)
    /\ acc' = acc \o pipe
    /\ pipe' = <<>>
    /\ rcvd' = rcvd \o pipe
    /\ ps' = [ps EXCEPT !.n = ps.n + Len(pipe)]
    /\ UNCHANGED <<gen, stream, closed, main, task, lib>>

\* orient = ReadOrientation(pr) (io.go:64): the store of the result.
StoreOrient ==
    /\ task.pc = "parse"
    /\ ps.pc = "done"
    /\ main' = [main EXCEPT !.orient = ps.result]
    /\ task' = [task EXCEPT !.pc = "drain"]
    /\ UNCHANGED <<gen, stream, pipe, closed, acc, ps, lib, rcvd>>

\* Mutant of Drain: the task returns without reading the rest of the pipe.
Drain_Skipped ==
    /\ task.pc = "drain"
    /\ pipe # <<>>
    /\ task' = [task EXCEPT !.pc = "done"]
    /\ UNCHANGED <<gen, stream, pipe, closed, acc, ps, main, lib, rcvd>>

\* io.Copy(io.Discard, pr) (io.go:65): one Read that returns bytes.
Drain ==
    /\ task.pc = "drain"
    /\ pipe # <<>>
    /\ pipe' = <<>>
    /\ rcvd' = rcvd \o pipe
    /\ UNCHANGED <<gen, stream, closed, acc, ps, main, task, lib>>

\* io.Copy's Read returns io.EOF: the writer was closed; the task returns nil.
DrainEOF ==
    /\ task.pc = "drain"
    /\ pipe = <<>>
    /\ closed
    /\ task' = [task EXCEPT !.pc = "done"]
    /\ UNCHANGED <<gen, stream, pipe, closed, acc, ps, main, lib, rcvd>>

MainNext ==
    \/ DecoderRead \/ WriteDone \/ DecodeOK \/ DecodeFail
    \/ ClosePipe \/ Wait \/ Fix

TaskNext == ParserNext \/ PartialRead \/ StoreOrient \/ Drain \/ DrainEOF

Next == MainNext \/ TaskNext

Spec == Init /\ [][Next]_vars

\* Go runs every goroutine that can run.
FairSpec == Spec /\ WF_vars(MainNext) /\ WF_vars(TaskNext)

(***************************************************************************)
(* Claims about the decode pipeline, checked under Spec and FairSpec.      *)
(***************************************************************************)
\* Decode without AutoOrientation on the same stream: what image.Decode
\* returned (io.go:48-51).
PlainResult == [img |-> main.img, err |-> main.decErr]

\* ... followed by FixOrientation with what ReadOrientation returns on the
\* stream.
ManualResult ==
    IF main.decErr = "nil"
    THEN [img |-> FixOrientation(main.img, ReadOrientation(stream).result),
          err |-> "nil"]
    ELSE PlainResult

C4_DrainUnblocksDecoder ==
    /\ [](task.pc = "done" => closed /\ pipe = <<>>)
    /\ (main.pc = "write") ~> (main.pc = "decode")

C4_Witness ==
    /\ ps.pc = "done" /\ ps.err = "soi" /\ task.pc = "drain"
    /\ main.pc = "decode" /\ main.pos = Len(stream) /\ ps.n < main.pos
    /\ pipe = <<>>

\* C5: orientation-aware Decode returns only after the decoder and the
\* orientation task have both finished.
C5_ReturnsAfterBoth ==
    (main.pc = "returned" /\ main.auto) => task.pc = "done"

\* C17: the producer side of the pipe is closed only after image.Decode
\* has returned: whenever the pipe is closed the decoder has returned an
\* image and is neither reading nor inside a write of the tee, and the step
\* that closes the pipe is taken after the decoder's return.
C17_ClosedAfterDecode ==
    /\ []((main.pc # "idle" /\ closed) =>
             /\ main.auto
             /\ main.pc \in {"wait", "fix", "returned"}
             /\ main.decErr = "nil")
    /\ [][(~closed /\ closed') => (main.pc = "close" /\ main.decErr = "nil")]_vars

\* The pipe is closed while the task is still parsing what the decoder read.
C17_Witness ==
    /\ closed /\ main.pc = "wait" /\ main.decErr = "nil"
    /\ task.pc = "parse" /\ ps.pc # "done"
    /\ main.pos < Len(stream)

\* C18: the bytes the orientation task has received from the pipe, followed
\* by the bytes of the write in flight, are exactly the bytes the decoder
\* has read from the input, in order; and the decoder reads a further chunk
\* only when the task has taken every byte of the previous one.
C18_PipeOrder ==
    /\ [](main.pc # "idle" =>
             /\ rcvd \o pipe = Take(stream, IF main.auto THEN main.pos ELSE 0)
             /\ main.pc # "write" => pipe = <<>>)
    /\ [][main'.pos > main.pos => pipe = <<>>]_vars

\* The whole stream went through in several chunks, part of it after
\* ReadOrientation had returned.
C18_Witness ==
    /\ main.auto /\ main.pc = "returned" /\ task.pc = "done"
    /\ main.pos = Len(stream) /\ rcvd = stream
    /\ ps.n > 2 /\ ps.n < Len(rcvd)

\* C19: in every execution of orientation-aware Decode, also when the
\* decoder returns an error, the pipe is eventually closed and the
\* orientation task eventually terminates.
C19_TaskTerminates ==
    (main.pc # "idle" /\ main.auto) ~> (closed /\ task.pc = "done")

\* C27: no data race on orient.  In every execution that reaches
\* FixOrientation the task has stored the value ReadOrientation returned in
\* that call and has returned before orient is read: FixOrientation gets
\* that value, never the initial 0 of a task still running, and the store
\* is never taken once the caller is at, or past, the read.
C27_OrientStoredBeforeRead ==
    /\ [](main.pc = "fix" =>
             /\ task.pc = "done" /\ ps.pc = "done"
             /\ main.orient = ps.result)
    /\ []((main.pc = "returned" /\ main.auto /\ main.decErr = "nil") =>
             /\ task.pc = "done"
             /\ main.orient = ps.result
             /\ main.ret.img = FixOrientation(main.img, ps.result))
    /\ [][(task.pc = "parse" /\ task'.pc = "drain") =>
             /\ main.pc \in {"decode", "write", "close", "wait", "returned"}
             /\ main.pc = "returned" => main.decErr = "decode"
             /\ main'.orient = ps.result]_vars

\* The caller is about to read orient = 6: the task has parsed it from the
\* bytes the decoder read, which end with the orientation value, has stored
\* it and has returned.
C27_Witness ==
    /\ main.pc = "fix" /\ main.orient = OrientationRotate270
    /\ ps.result = OrientationRotate270 /\ task.pc = "done"
    /\ ps.n = main.pos /\ main.pos < Len(stream)
    /\ FixOrientation(main.img, main.orient) # main.img

(***************************************************************************)
(* Open (io.go): fs.Open, the deferred file.Close and return Decode(file,  *)
(* opts...).  lib is Open's frame: its local variable err, the error       *)
(* file.Close is going to return, the number of calls of Close, and ret,   *)
(* the results Open returns.  Open's results have no names: the return     *)
(* statement stores the results of Decode in them before the deferred      *)
(* function runs, and the deferred function assigns to the local err.      *)
(***************************************************************************)
OpenInit ==
    /\ gen \in PipeGens
    /\ stream = Encode(gen)
    /\ pipe = <<>>
    /\ closed = FALSE
    /\ acc = <<>>
    /\ \E auto \in BOOLEAN :
          /\ main = [pc |-> "uncalled", auto |-> auto, pos |-> 0, img |-> Nil,
                     decErr |-> "none", orient |-> OrientationUnspecified,
                     ret |-> [img |-> Nil, err |-> "none"]]
          /\ task = [pc |-> IF auto THEN "parse" ELSE "idle"]
          /\ ps = IF auto THEN ParserInit ELSE [ParserInit EXCEPT !.pc = "idle"]
    /\ \E closeErr \in {"nil", "close"} :
          lib = [pc |-> "open", op |-> "Open", closeErr |-> closeErr,
                 err |-> "none", closes |-> 0,
                 ret |-> [img |-> Nil, err |-> "none"]]
    /\ rcvd = <<>>

\* file, err := fs.Open(filename); if err != nil { return nil, err }
FsOpenFails ==
    /\ lib.pc = "open" /\ lib.op = "Open"
    /\ lib' = [lib EXCEPT !.pc = "returned", !.err = "open",
                          !.ret = [img |-> Nil, err |-> "open"]]
    /\ UNCHANGED <<gen, stream, pipe, closed, acc, ps, main, task, rcvd>>

\* fs.Open returns the file: the defer is set up and Decode(file, opts...)
\* is called.
FsOpenOK ==
    /\ lib.pc = "open" /\ lib.op = "Open"
    /\ lib' = [lib EXCEPT !.pc = "decode", !.err = "nil"]
    /\ main' = [main EXCEPT !.pc = "decode"]
    /\ UNCHANGED <<gen, stream, pipe, closed, acc, ps, task, rcvd>>

\* return Decode(file, opts...): Decode has returned, its results become
\* the results of Open.
ReturnDecode ==
    /\ lib.pc = "decode" /\ lib.op = "Open"
    /\ main.pc = "returned"
    /\ lib' = [lib EXCEPT !.pc = "defer", !.ret = main.ret]
    /\ UNCHANGED <<gen, stream, pipe, closed, acc, ps, main, task, rcvd>>

\* The deferred function: file.Close() and the assignments to err; then
\* Open returns its results.
DeferredClose ==
    /\ lib.pc = "defer" /\ lib.op = "Open"
    /\ lib' = [lib EXCEPT
                 !.pc = "returned",
                 !.closes = lib.closes + 1,
                 !.err = IF lib.closeErr = "nil" THEN lib.err
                         ELSE IF lib.err = "nil" THEN lib.closeErr
                         ELSE "original and close"]
    /\ UNCHANGED <<gen, stream, pipe, closed, acc, ps, main, task, rcvd>>

OpenNext ==
    \/ FsOpenFails \/ FsOpenOK \/ MainNext \/ TaskNext \/ ReturnDecode
    \/ DeferredClose

OpenSpec == OpenInit /\ [][OpenNext]_vars

\* C29: after a successful fs.Open, Open closes the file exactly once on
\* every path; when decoding succeeds and closing fails Open returns the
\* error of Close, and when both fail an error that combines the two.
C29_CloseErrorReported ==
    (lib.pc = "returned" /\ lib.op = "Open" /\ lib.ret.err # "open") =>
        /\ lib.closes = 1
        /\ lib.closeErr # "nil" =>
              lib.ret.err = (IF main.ret.err = "nil" THEN lib.closeErr
                             ELSE "original and close")

(***************************************************************************)
(* Blur and Sharpen (effects.go).                                          *)
(*                                                                         *)
(* A pixel is <<r, g, b, a>>, 8 bits each, not premultiplied: the layout   *)
(* of image.NRGBA, which the scanner copies unchanged.  sigma is counted   *)
(* in thirds (sigma = 2 stands for 2/3), so that radius = ceil(3 * sigma)  *)
(* is sigma itself.  Kernel weights are kept in thousandths and the sums   *)
(* of the passes are exact: a quotient is rounded once, by clamp.          *)
(***************************************************************************)
\* gaussianBlurKernel(x, sigma), times 1000 and rounded.
gaussianBlurKernel(x, sigma) ==
    CASE sigma = 1 -> <<1197, 13>>[x + 1]
      [] sigma = 2 -> <<598, 194, 7>>[x + 1]
      [] sigma = 3 -> <<399, 242, 54, 4>>[x + 1]
      [] sigma = 4 -> <<299, 226, 97, 24, 3>>[x + 1]
      [] OTHER -> 0

\* radius and kernel of Blur: kernel[i + 1] is the source's kernel[i].
Radius(sigma) == sigma
Kernel(sigma) == [k \in 1..(Radius(sigma) + 1) |-> gaussianBlurKernel(k - 1, sigma)]

absint(i) == IF i < 0 THEN -i ELSE i

\* clamp(num / den): the quotient rounded to the nearest integer, within 0..255.
clamp(num, den) ==
    LET v == (2 * num + den) \div (2 * den) IN
    IF v > 255 THEN 255 ELSE IF v > 0 THEN v ELSE 0

\* scanner.scan for an NRGBA source: the pixels of the rectangle, row by row.
Scan(img, x1, y1, x2, y2) ==
    [k \in 1..((x2 - x1) * (y2 - y1)) |->
        At(img, x1 + ((k - 1) % (x2 - x1)), y1 + ((k - 1) \div (x2 - x1)))]

\* Clone: a new image filled by scanning the source.
Clone(img) == [w |-> img.w, h |-> img.h, pix |-> Scan(img, 0, 0, img.w, img.h)]

\* Mutant of Accumulate: the colours weighted by the kernel only, not by
\* the alpha of the tap.
RECURSIVE Accumulate_ColourByKernel(_, _, _, _, _)
Accumulate_ColourByKernel(line, kernel, x, ix, max) ==
    IF ix > max THEN [r |-> 0, g |-> 0, b |-> 0, a |-> 0, wsum |-> 0]
    ELSE LET rest == Accumulate_ColourByKernel(line, kernel, x, ix + 1, max)
             weight == kernel[absint(x - ix) + 1]
             s == line[ix + 1]
             wa == s[4] * weight
         IN [r |-> rest.r + s[1] * weight * 255, g |-> rest.g + s[2] * weight * 255,
             b |-> rest.b + s[3] * weight * 255, a |-> rest.a + wa,
             wsum |-> rest.wsum + weight]

\* The inner loop of a pass: the sums over the taps ix..max of a scan line.
RECURSIVE Accumulate(_, _, _, _, _)
Accumulate(line, kernel, x, ix, max) ==
    IF ix > max THEN [r |-> 0, g |-> 0, b |-> 0, a |-> 0, wsum |-> 0]
    ELSE LET rest == Accumulate(line, kernel, x, ix + 1, max)
             weight == kernel[absint(x - ix) + 1]
             s == line[ix + 1]
             wa == s[4] * weight
         IN [r |-> rest.r + s[1] * wa, g |-> rest.g + s[2] * wa,
             b |-> rest.b + s[3] * wa, a |-> rest.a + wa,
             wsum |-> rest.wsum + weight]

RECURSIVE KernelMass(_, _)
KernelMass(kernel, i) ==
    IF i > Len(kernel) THEN 0
    ELSE (IF i = 1 THEN 1 ELSE 2) * kernel[i] + KernelMass(kernel, i + 1)

\* Mutant of BlurPixel: alpha divided by the mass of the whole kernel.
BlurPixel_FullMass(line, kernel, x) ==
    LET radius == Len(kernel) - 1
        s == Accumulate(line, kernel, x, Max(x - radius, 0),
                        Min(x + radius, Len(line) - 1))
    IN IF s.a # 0
       THEN <<clamp(s.r, s.a), clamp(s.g, s.a), clamp(s.b, s.a),
              clamp(s.a, KernelMass(kernel, 1))>>
       ELSE <<0, 0, 0, 0>>

\* Mutant of BlurPixel: the colour sums divided by the weight, not by alpha.
BlurPixel_ColourByWeight(line, kernel, x) ==
    LET radius == Len(kernel) - 1
        s == Accumulate(line, kernel, x, Max(x - radius, 0),
                        Min(x + radius, Len(line) - 1))
    IN IF s.a # 0
       THEN <<clamp(s.r, s.wsum), clamp(s.g, s.wsum), clamp(s.b, s.wsum),
              clamp(s.a, s.wsum)>>
       ELSE <<0, 0, 0, 0>>

\* One destination pixel of a pass: position x of the scan line.
BlurPixel(line, kernel, x) ==
    LET radius == Len(kernel) - 1
        s == Accumulate(line, kernel, x, Max(x - radius, 0),
                        Min(x + radius, Len(line) - 1))
    IN IF s.a # 0
       THEN <<clamp(s.r, s.a), clamp(s.g, s.a), clamp(s.b, s.a),
              clamp(s.a, s.wsum)>>
       ELSE <<0, 0, 0, 0>>

blurHorizontal(img, kernel) ==
    MakeImage(img.w, img.h,
              [c \in Coords(img.w, img.h) |->
                  BlurPixel(Scan(img, 0, c[2], img.w, c[2] + 1), kernel, c[1])])

blurVertical(img, kernel) ==
    MakeImage(img.w, img.h,
              [c \in Coords(img.w, img.h) |->
                  BlurPixel(Scan(img, c[1], 0, c[1] + 1, img.h), kernel, c[2])])

\* Mutant of Identity: only a negative sigma skips the convolution.
Identity_NegativeOnly(sigma) == sigma < 0

\* if sigma <= 0 { return Clone(img) }
Identity(sigma) == sigma <= 0

Blur(img, sigma) ==
    IF Identity(sigma) THEN Clone(img)
    ELSE blurVertical(blurHorizontal(img, Kernel(sigma)), Kernel(sigma))

\* Mutant of SharpenByte: the difference stored in a byte without the clamp.
SharpenByte_Wraps(s, b) == (2 * s - b) % 256

\* One byte of Sharpen's result.
SharpenByte(s, b) ==
    LET val == 2 * s - b IN
    IF val < 0 THEN 0 ELSE IF val > 255 THEN 255 ELSE val

SharpenWith(img, blurred) ==
    MakeImage(img.w, img.h,
              [c \in Coords(img.w, img.h) |->
                  [i \in 1..4 |-> SharpenByte(At(img, c[1], c[2])[i],
                                              At(blurred, c[1], c[2])[i])]])

Sharpen(img, sigma) ==
    IF Identity(sigma) THEN Clone(img) ELSE SharpenWith(img, Blur(img, sigma))

(***************************************************************************)
(* Calls of Blur, Sharpen and FixOrientation on small images.              *)
(***************************************************************************)
Palette ==
    {<<0, 0, 0, 0>>, <<10, 20, 30, 0>>, <<200, 100, 50, 255>>, <<90, 60, 30, 128>>,
     <<255, 0, 1, 255>>}

Dims == {d \in (1..MaxDim) \X (1..MaxDim) : d[1] * d[2] <= MaxDim + 1}

Images ==
    UNION {{[w |-> d[1], h |-> d[2], pix |-> q] : q \in [1..(d[1] * d[2]) -> Palette]}
           : d \in Dims}

\* sigma from -1/3 up; flags around the values of the Orientation type.
Sigmas == (0 - 1)..MaxSigma
Flags == (0 - 1)..9

LibInit ==
    /\ gen = JunkGen
    /\ stream = <<>>
    /\ pipe = <<>>
    /\ closed = TRUE
    /\ acc = <<>>
    /\ ps = [ParserInit EXCEPT !.pc = "idle"]
    /\ main = Idle
    /\ task = Idle
    /\ rcvd = <<>>
    /\ \E img \in Images :
          \/ \E op \in {"Blur", "Sharpen"}, sigma \in Sigmas :
                lib = [pc |-> "call", op |-> op, img |-> img, sigma |-> sigma,
                       o |-> 0, passes |-> 0, mid |-> Nil, blurred |-> Nil,
                       out |-> Nil]
          \/ \E o \in Flags :
                lib = [pc |-> "call", op |-> "FixOrientation", img |-> img,
                       sigma |-> 0, o |-> o, passes |-> 0, mid |-> Nil,
                       blurred |-> Nil, out |-> Nil]

LibStep(new) ==
    /\ lib' = new
    /\ UNCHANGED <<gen, stream, pipe, closed, acc, ps, main, task, rcvd>>

\* Blur or Sharpen with sigma <= 0: return Clone(img).
ReturnClone ==
    /\ lib.pc = "call" /\ lib.op \in {"Blur", "Sharpen"}
    /\ Identity(lib.sigma)
    /\ LibStep([lib EXCEPT !.pc = "done", !.out = Clone(lib.img)])

\* Blur's first pass.
HorizontalPass ==
    /\ lib.pc = "call" /\ lib.op \in {"Blur", "Sharpen"}
    /\ ~Identity(lib.sigma)
    /\ LibStep([lib EXCEPT !.pc = "vertical", !.passes = 1,
                           !.mid = blurHorizontal(lib.img, Kernel(lib.sigma))])

\* Blur's second pass; Blur returns its result.
VerticalPass ==
    /\ lib.pc = "vertical"
    /\ LET b == blurVertical(lib.mid, Kernel(lib.sigma)) IN
       LibStep([lib EXCEPT !.pc = IF lib.op = "Blur" THEN "done" ELSE "combine",
                           !.passes = 2, !.blurred = b,
                           !.out = IF lib.op = "Blur" THEN b ELSE lib.out])

\* Sharpen's loop over the bytes of the source and of the blurred image.
SharpenCombine ==
    /\ lib.pc = "combine"
    /\ LibStep([lib EXCEPT !.pc = "done", !.out = SharpenWith(lib.img, lib.blurred)])

CallFixOrientation ==
    /\ lib.pc = "call" /\ lib.op = "FixOrientation"
    /\ LibStep([lib EXCEPT !.pc = "done", !.out = FixOrientation(lib.img, lib.o)])

LibNext ==
    \/ ReturnClone \/ HorizontalPass \/ VerticalPass \/ SharpenCombine
    \/ CallFixOrientation

LibSpec == LibInit /\ [][LibNext]_vars

(***************************************************************************)
(* Claims about Blur, Sharpen and FixOrientation, checked under LibSpec.   *)
(***************************************************************************)
\* C6: for sigma <= 0 Blur and Sharpen run no pass of the convolution and
\* return a copy of the image: the same size and the same pixel bytes.
C6_NonPositiveSigmaCopies ==
    (lib.pc # "idle" /\ lib.op \in {"Blur", "Sharpen"} /\ lib.sigma <= 0) =>
        /\ lib.pc \in {"call", "done"}
        /\ lib.passes = 0
        /\ lib.pc = "done" =>
              /\ lib.out.w = lib.img.w /\ lib.out.h = lib.img.h
              /\ \A k \in 1..Len(lib.img.pix) : lib.out.pix[k] = lib.img.pix[k]
        /\ Blur(lib.img, lib.sigma) = lib.img
        /\ Sharpen(lib.img, lib.sigma) = lib.img

C6_Witness ==
    /\ lib.pc = "done" /\ lib.op = "Sharpen" /\ lib.sigma = 0
    /\ lib.img.w = 2 /\ lib.img.h = 2
    /\ lib.out = lib.img
    /\ lib.out # Blur(lib.img, 1)

\* The table of the claim.
C7_Table(img, o) ==
    CASE o = 1 -> img
      [] o = 2 -> FlipH(img)
      [] o = 3 -> Rotate180(img)
      [] o = 4 -> FlipV(img)
      [] o = 5 -> Transpose(img)
      [] o = 6 -> Rotate270(img)
      [] o = 7 -> Transverse(img)
      [] o = 8 -> Rotate90(img)
      [] OTHER -> img

\* C7: FixOrientation applies exactly the table: 1 identity, 2 FlipH,
\* 3 Rotate180, 4 FlipV, 5 Transpose, 6 Rotate270, 7 Transverse, 8 Rotate90;
\* for 0 and for any value outside 1..8 it returns the image it was given.
C7_FixOrientationTable ==
    (lib.pc = "done" /\ lib.op = "FixOrientation") =>
        /\ lib.out = C7_Table(lib.img, lib.o)
        /\ lib.o \notin 1..8 => lib.out = lib.img

C7_Witness ==
    /\ lib.pc = "done" /\ lib.op = "FixOrientation" /\ lib.o = 8
    /\ lib.img.w = MaxDim /\ lib.img.h = 1
    /\ lib.out = Rotate90(lib.img)
    /\ lib.out # Rotate270(lib.img)

\* The taps of position x that lie inside a scan line of n pixels.
InRange(x, radius, n) == {ix \in (x - radius)..(x + radius) : 0 <= ix /\ ix < n}

RECURSIVE SetSum(_, _)
SetSum(f, S) ==
    IF S = {} THEN 0
    ELSE LET e == CHOOSE e \in S : TRUE IN f[e] + SetSum(f, S \ {e})

\* The destination alpha q at position x of a scan line is the weighted
\* alpha sum over the in-range taps divided by the weight of those same
\* taps, rounded to the nearest integer.
RenormalisedAt(line, kernel, x, q) ==
    LET taps == InRange(x, Len(kernel) - 1, Len(line))
        wa == SetSum([ix \in taps |-> kernel[absint(x - ix) + 1] * line[ix + 1][4]], taps)
        wsum == SetSum([ix \in taps |-> kernel[absint(x - ix) + 1]], taps)
    IN wa # 0 => (2 * wsum * q <= 2 * wa + wsum /\ 2 * wa + wsum < 2 * wsum * (q + 1))

\* C10: in each pass, for every destination pixel whose accumulated alpha
\* is not zero, the destination alpha is the alpha sum over the taps inside
\* the image divided by the weight of those taps only.
C10_EdgeRenormalisation ==
    /\ (lib.pc # "idle" /\ lib.passes >= 1) =>
          \A x \in 0..(lib.img.w - 1), y \in 0..(lib.img.h - 1) :
              RenormalisedAt(Scan(lib.img, 0, y, lib.img.w, y + 1),
                             Kernel(lib.sigma), x, At(lib.mid, x, y)[4])
    /\ (lib.pc # "idle" /\ lib.passes >= 2) =>
          \A x \in 0..(lib.img.w - 1), y \in 0..(lib.img.h - 1) :
              RenormalisedAt(Scan(lib.mid, x, 0, x + 1, lib.img.h),
                             Kernel(lib.sigma), y, At(lib.blurred, x, y)[4])

\* A 1-row opaque image and a kernel of radius >= 1: the boundary pixel
\* keeps alpha 255, which the full kernel mass would not give.
C10_Witness ==
    /\ lib.pc = "vertical" /\ lib.passes = 1
    /\ lib.img.h = 1 /\ lib.img.w = MaxDim /\ lib.sigma = 1
    /\ \A k \in 1..Len(lib.img.pix) : lib.img.pix[k][4] = 255
    /\ At(lib.mid, 0, 0)[4] = 255
    /\ BlurPixel_FullMass(lib.img.pix, Kernel(lib.sigma), 0)[4] < 255

\* A uniform fully-opaque image: every pixel is the first one, alpha 255.
UniformOpaque(img) ==
    /\ img.pix[1][4] = 255
    /\ \A k \in 1..Len(img.pix) : img.pix[k] = img.pix[1]

\* res has the size of img, alpha 255 everywhere and every colour channel
\* within 1 of the colour of img.
KeepsColour(img, res) ==
    /\ res.w = img.w /\ res.h = img.h
    /\ \A k \in 1..Len(img.pix) :
          /\ res.pix[k][4] = 255
          /\ \A i \in 1..3 : absint(res.pix[k][i] - img.pix[1][i]) <= 1

\* C11: for a uniform fully-opaque image of any size and sigma > 0, every
\* pixel after the first pass and every pixel of Blur's result has alpha 255
\* and colour channels within 1 of the input colour.
C11_UniformOpaqueKept ==
    (lib.pc # "idle" /\ lib.op \in {"Blur", "Sharpen"} /\ lib.sigma > 0
        /\ UniformOpaque(lib.img)) =>
        /\ lib.passes >= 1 => KeepsColour(lib.img, lib.mid)
        /\ lib.passes >= 2 => KeepsColour(lib.img, lib.blurred)
        /\ KeepsColour(lib.img, Blur(lib.img, lib.sigma))

\* An image narrower than the kernel radius, after both passes.
C11_Witness ==
    /\ lib.pc = "done" /\ lib.op = "Blur" /\ lib.sigma = MaxSigma
    /\ lib.img.w = 1 /\ lib.img.h = MaxDim /\ Radius(lib.sigma) > lib.img.w
    /\ UniformOpaque(lib.img) /\ lib.img.pix[1] = <<255, 0, 1, 255>>
    /\ lib.out = lib.img

\* C12: for sigma > 0 every byte of Sharpen's result, alpha included, is
\* 2 * s - b brought into 0..255, s the scanned source byte and b the byte of
\* Blur(source, sigma) at the same position.
C12_SharpenFormula ==
    (lib.pc = "done" /\ lib.op = "Sharpen" /\ lib.sigma > 0) =>
        /\ lib.out.w = lib.img.w /\ lib.out.h = lib.img.h
        /\ \A k \in 1..Len(lib.img.pix), i \in 1..4 :
              LET s == Scan(lib.img, 0, 0, lib.img.w, lib.img.h)[k][i]
                  b == Blur(lib.img, lib.sigma).pix[k][i]
              IN lib.out.pix[k][i] = Max(0, Min(255, 2 * s - b))

\* Both ends of the clamp are reached in one result.
C12_Witness ==
    /\ lib.pc = "done" /\ lib.op = "Sharpen" /\ lib.sigma > 0
    /\ \E k \in 1..Len(lib.img.pix), i \in 1..4 :
          2 * lib.img.pix[k][i] - lib.blurred.pix[k][i] > 255 /\ lib.out.pix[k][i] = 255
    /\ \E k \in 1..Len(lib.img.pix), i \in 1..4 :
          2 * lib.img.pix[k][i] - lib.blurred.pix[k][i] < 0 /\ lib.out.pix[k][i] = 0

\* img with the colour bytes of every pixel of alpha 0 replaced by c.
Recolour(img, c) ==
    [img EXCEPT !.pix = [k \in 1..Len(img.pix) |->
                            IF img.pix[k][4] = 0 THEN <<c[1], c[2], c[3], 0>>
                            ELSE img.pix[k]]]

\* Every tap of position x inside a scan line has alpha 0.
AllTapsTransparent(line, radius, x) ==
    \A ix \in InRange(x, radius, Len(line)) : line[ix + 1][4] = 0

\* C28: transparent pixels do not leak colour in Blur.  For sigma > 0 the
\* result for an image equals the result for the same image with the colour
\* bytes of its pixels of alpha 0 replaced, by black, by white or by any
\* other colour (so two images that differ only there have the same
\* result), after the first pass and after both passes; and in each pass a
\* destination pixel whose taps inside the image all have alpha 0 is
\* (0,0,0,0).
C28_TransparentDoesNotLeak ==
    (lib.pc = "done" /\ lib.op = "Blur" /\ lib.sigma > 0) =>
        /\ \A c \in {<<0, 0, 0>>, <<255, 255, 255>>, <<30, 20, 10>>} :
              /\ lib.mid = blurHorizontal(Recolour(lib.img, c), Kernel(lib.sigma))
              /\ lib.out = Blur(Recolour(lib.img, c), lib.sigma)
        /\ \A x \in 0..(lib.img.w - 1), y \in 0..(lib.img.h - 1) :
              /\ AllTapsTransparent(Scan(lib.img, 0, y, lib.img.w, y + 1),
                                    Radius(lib.sigma), x)
                    => At(lib.mid, x, y) = <<0, 0, 0, 0>>
              /\ AllTapsTransparent(Scan(lib.mid, x, 0, x + 1, lib.img.h),
                                    Radius(lib.sigma), y)
                    => At(lib.out, x, y) = <<0, 0, 0, 0>>

\* A row of transparent pixels that carry a colour above a row of opaque
\* ones: the first pass leaves the upper row at zero, the second gives it
\* the colour of the lower row alone.
C28_Witness ==
    /\ lib.pc = "done" /\ lib.op = "Blur" /\ lib.sigma = 1
    /\ lib.img.w = 2 /\ lib.img.h = 2
    /\ lib.img.pix = <<<<10, 20, 30, 0>>, <<10, 20, 30, 0>>,
                       <<200, 100, 50, 255>>, <<200, 100, 50, 255>>>>
    /\ Recolour(lib.img, <<0, 0, 0>>) # lib.img
    /\ lib.mid.pix[1] = <<0, 0, 0, 0>>
    /\ lib.out.pix[1][1] = 200 /\ lib.out.pix[1][2] = 100 /\ lib.out.pix[1][3] = 50
    /\ lib.out.pix[1][4] > 0
    /\ lib.out = Blur(Recolour(lib.img, <<0, 0, 0>>), lib.sigma)

(***************************************************************************)
(* The scanner (scanner.go): one routine per source layout.                *)
(*                                                                         *)
(* A source is [layout, w, h, pix, ...]: pix holds, row by row, the bytes  *)
(* the layout stores for one pixel (for "generic": the four 16-bit values  *)
(* At(x, y).RGBA() returns).  minX, minY are Bounds().Min; a YCbCr source  *)
(* holds its three planes Y, Cb, Cr with their strides and its ratio.      *)
(* Every routine returns the destination buffer as a sequence of pixels    *)
(* <<r, g, b, a>>, in the order the routine advances j.                    *)
(***************************************************************************)
\* The pixels of the rectangle in the order of the loops over y and x.
Cell(k, x1, y1, x2) == [x |-> x1 + ((k - 1) % (x2 - x1)), y |-> y1 + ((k - 1) \div (x2 - x1))]

Area(x1, y1, x2, y2) == IF x2 > x1 /\ y2 > y1 THEN (x2 - x1) * (y2 - y1) ELSE 0

\* uint8(v): the low byte of a non-negative value.
Uint8(v) == v % 256

\* c * 0xffff / a in uint32 arithmetic (c, a 16-bit, a > 0), by long division.
Unpremultiply16(c, a) ==
    LET q1 == (c * 256) \div a
        r1 == (c * 256) % a
        q2 == (r1 * 256) \div a
        r2 == (r1 * 256) % a
    IN q1 * 256 + q2 + ((r2 - c) \div a)

scanNRGBA64(img, x1, y1, x2, y2) ==
    [k \in 1..Area(x1, y1, x2, y2) |->
        LET c == Cell(k, x1, y1, x2)
            p == img.pix[c.y * img.w + c.x + 1]
        IN <<p[1], p[3], p[5], p[7]>>]

\* Mutant of RGBAPixel: the quotient rounded to the nearest integer.
RGBAPixel_Rounds(p) ==
    CASE p[4] = 0 -> <<0, 0, 0, p[4]>>
      [] p[4] = 255 -> <<p[1], p[2], p[3], p[4]>>
      [] OTHER -> <<Uint8((2 * p[1] * 255 + p[4]) \div (2 * p[4])),
                    Uint8((2 * p[2] * 255 + p[4]) \div (2 * p[4])),
                    Uint8((2 * p[3] * 255 + p[4]) \div (2 * p[4])), p[4]>>

\* scanRGBA: the switch on a; the products stay below 2^16.
RGBAPixel(p) ==
    CASE p[4] = 0 -> <<0, 0, 0, p[4]>>
      [] p[4] = 255 -> <<p[1], p[2], p[3], p[4]>>
      [] OTHER -> <<Uint8((p[1] * 255) \div p[4]), Uint8((p[2] * 255) \div p[4]),
                    Uint8((p[3] * 255) \div p[4]), p[4]>>

scanRGBA(img, x1, y1, x2, y2) ==
    [k \in 1..Area(x1, y1, x2, y2) |->
        LET c == Cell(k, x1, y1, x2) IN RGBAPixel(img.pix[c.y * img.w + c.x + 1])]

\* scanRGBA64: the switch on a := s[6], the high byte of alpha.
RGBA64Pixel(s) ==
    LET a == s[7]
        a32 == s[7] * 256 + s[8]
    IN CASE a = 0 -> <<0, 0, 0, a>>
         [] a = 255 -> <<s[1], s[3], s[5], a>>
         [] OTHER -> <<Uint8(Unpremultiply16(s[1] * 256 + s[2], a32) \div 256),
                       Uint8(Unpremultiply16(s[3] * 256 + s[4], a32) \div 256),
                       Uint8(Unpremultiply16(s[5] * 256 + s[6], a32) \div 256), a>>

scanRGBA64(img, x1, y1, x2, y2) ==
    [k \in 1..Area(x1, y1, x2, y2) |->
        LET c == Cell(k, x1, y1, x2) IN RGBA64Pixel(img.pix[c.y * img.w + c.x + 1])]

\* scanGray and scanGray16: c := img.Pix[i], the (high) byte of the sample.
scanGray(img, x1, y1, x2, y2) ==
    [k \in 1..Area(x1, y1, x2, y2) |->
        LET c == Cell(k, x1, y1, x2)
            v == img.pix[c.y * img.w + c.x + 1][1]
        IN <<v, v, v, 255>>]

scanGray16(img, x1, y1, x2, y2) ==
    [k \in 1..Area(x1, y1, x2, y2) |->
        LET c == Cell(k, x1, y1, x2)
            v == img.pix[c.y * img.w + c.x + 1][1]
        IN <<v, v, v, 255>>]

\* Mutant of Saturate: the shifted value stored without the test of the
\* top byte.
Saturate_Unchecked(v) == (v \div 65536) % 256

\* One channel of scanYCbCr after the sum: the shift, or the saturation.
Saturate(v) ==
    IF 0 <= v /\ v < 16777216 THEN v \div 65536
    ELSE IF v < 0 THEN 0 ELSE 255

YCbCrPixel(yy, cb, cr) ==
    LET yy1 == yy * 65793
        cb1 == cb - 128
        cr1 == cr - 128
    IN <<Saturate(yy1 + 91881 * cr1),
         Saturate(yy1 - 22554 * cb1 - 46802 * cr1),
         Saturate(yy1 + 116130 * cb1), 255>>

\* img.COffset(x, y) of image.YCbCr, used for the ratios 4:1:1 and 4:1:0.
COffset(img, x, y) ==
    CASE img.ratio = "411" ->
            (y - img.minY) * img.CStride + ((x \div 4) - (img.minX \div 4))
      [] img.ratio = "410" ->
            ((y \div 2) - (img.minY \div 2)) * img.CStride
                + ((x \div 4) - (img.minX \div 4))
      [] OTHER -> 0

\* Mutant of ChromaIndex: the row of the chroma sample taken relative to
\* the rectangle scanned, not to the image.
ChromaIndex_RelativeRow(img, x, y, top) ==
    LET yBase == CASE img.ratio \in {"444", "422"} -> (y - top) * img.CStride
                   [] img.ratio \in {"420", "440"} ->
                          (((y - top) \div 2)) * img.CStride
                   [] OTHER -> 0
    IN CASE img.ratio \in {"444", "440"} -> yBase + (x - img.minX)
         [] img.ratio \in {"422", "420"} -> yBase + ((x \div 2) - (img.minX \div 2))
         [] OTHER -> COffset(img, x, y)

\* scanYCbCr: ic for the pixel (x, y), both already moved by Rect.Min; top
\* is the first row of the rectangle scanned.
ChromaIndex(img, x, y, top) ==
    LET hy == img.minY \div 2
        hx == img.minX \div 2
        yBase == CASE img.ratio \in {"444", "422"} -> (y - img.minY) * img.CStride
                   [] img.ratio \in {"420", "440"} -> ((y \div 2) - hy) * img.CStride
                   [] OTHER -> 0
    IN CASE img.ratio \in {"444", "440"} -> yBase + (x - img.minX)
         [] img.ratio \in {"422", "420"} -> yBase + ((x \div 2) - hx)
         [] OTHER -> COffset(img, x, y)

scanYCbCr(img, x1, y1, x2, y2) ==
    [k \in 1..Area(x1, y1, x2, y2) |->
        LET c == Cell(k, x1 + img.minX, y1 + img.minY, x2 + img.minX)
            iy == (c.y - img.minY) * img.YStride + (c.x - img.minX)
            ic == ChromaIndex(img, c.x, c.y, y1 + img.minY)
        IN YCbCrPixel(img.Y[iy + 1], img.Cb[ic + 1], img.Cr[ic + 1])]

\* scanPaletted: c := s.palette[img.Pix[i]].
scanPaletted(img, x1, y1, x2, y2) ==
    [k \in 1..Area(x1, y1, x2, y2) |->
        LET c == Cell(k, x1, y1, x2)
        IN img.palette[img.pix[c.y * img.w + c.x + 1][1] + 1]]

\* scanDefault: the switch on a16, the whole 16-bit alpha.
DefaultPixel(p) ==
    LET a16 == p[4] IN
    CASE a16 = 65535 -> <<Uint8(p[1] \div 256), Uint8(p[2] \div 256),
                          Uint8(p[3] \div 256), 255>>
      [] a16 = 0 -> <<0, 0, 0, 0>>
      [] OTHER -> <<Uint8(Unpremultiply16(p[1], a16) \div 256),
                    Uint8(Unpremultiply16(p[2], a16) \div 256),
                    Uint8(Unpremultiply16(p[3], a16) \div 256),
                    Uint8(a16 \div 256)>>

\* s.image.At(x, y).RGBA() of the generic source.
ColorAt(img, x, y) == img.pix[(y - img.minY) * img.w + (x - img.minX) + 1]

scanDefault(img, x1, y1, x2, y2) ==
    [k \in 1..Area(x1, y1, x2, y2) |->
        LET c == Cell(k, x1 + img.minX, y1 + img.minY, x2 + img.minX)
        IN DefaultPixel(ColorAt(img, c.x, c.y))]

\* scanner.scan: the type switch.
scan(img, x1, y1, x2, y2) ==
    CASE img.layout = "NRGBA" ->
            Scan(img, x1, y1, x2, y2)
      [] img.layout = "NRGBA64" -> scanNRGBA64(img, x1, y1, x2, y2)
      [] img.layout = "RGBA" -> scanRGBA(img, x1, y1, x2, y2)
      [] img.layout = "RGBA64" -> scanRGBA64(img, x1, y1, x2, y2)
      [] img.layout = "Gray" -> scanGray(img, x1, y1, x2, y2)
      [] img.layout = "Gray16" -> scanGray16(img, x1, y1, x2, y2)
      [] img.layout = "YCbCr" -> scanYCbCr(img, x1, y1, x2, y2)
      [] img.layout = "Paletted" -> scanPaletted(img, x1, y1, x2, y2)
      [] OTHER -> scanDefault(img, x1, y1, x2, y2)

(***************************************************************************)
(* Calls of scan on small sources of every layout.  The pixels of a source *)
(* are taken in turn from the sample values of its layout, starting at     *)
(* any of them, so that neighbouring pixels differ.                        *)
(***************************************************************************)
Fill(samples, n, off) == [k \in 1..n |-> samples[((k - 1 + off) % Len(samples)) + 1]]

Layouts ==
    {"NRGBA", "NRGBA64", "RGBA", "RGBA64", "Gray", "Gray16", "YCbCr", "Paletted",
     "generic"}

Ratios == {"444", "422", "420", "440", "411", "410"}

\* The stored bytes of one pixel; for "generic" the values RGBA() returns.
Samples(layout) ==
    CASE layout = "NRGBA" -> <<<<10, 20, 30, 0>>, <<200, 100, 50, 255>>, <<90, 60, 30, 128>>>>
      [] layout = "NRGBA64" ->
            <<<<1, 2, 3, 4, 5, 6, 0, 7>>, <<200, 1, 100, 2, 50, 3, 255, 255>>,
              <<90, 9, 60, 8, 30, 7, 128, 6>>>>
      [] layout = "RGBA" ->
            <<<<7, 5, 3, 0>>, <<200, 100, 50, 255>>, <<64, 32, 16, 128>>, <<1, 2, 3, 3>>>>
      [] layout = "RGBA64" ->
            <<<<0, 5, 0, 3, 0, 1, 0, 9>>, <<200, 1, 100, 2, 50, 3, 255, 255>>,
              <<64, 0, 32, 0, 16, 0, 128, 0>>>>
      [] layout = "Gray" -> <<<<0>>, <<128>>, <<255>>>>
      [] layout = "Gray16" -> <<<<0, 255>>, <<255, 0>>, <<18, 52>>>>
      [] layout = "Paletted" -> <<<<0>>, <<1>>, <<2>>>>
      [] OTHER ->
            <<<<0, 0, 0, 0>>, <<255, 128, 0, 255>>, <<65535, 32768, 0, 65535>>,
              <<16384, 8192, 4096, 32768>>>>

Luma == <<0, 128, 255, 76>>
ChromaB == <<0, 128, 255, 85>>
ChromaR == <<255, 128, 0, 200>>

\* The colours of an image.Paletted's Palette: color.NRGBA values and, as
\* 16-bit premultiplied values, colours of other types.
PaletteColors ==
    <<[model |-> "NRGBA", c |-> <<10, 20, 30, 0>>],
      [model |-> "NRGBA", c |-> <<200, 100, 50, 255>>],
      [model |-> "other", c |-> <<16384, 8192, 4096, 32768>>]>>

\* newScanner: color.NRGBAModel.Convert of every palette colour.
newScannerPalette(colors) ==
    [i \in 1..Len(colors) |->
        IF colors[i].model = "NRGBA" THEN colors[i].c ELSE DefaultPixel(colors[i].c)]

\* The chroma samples along one axis for pixels min..min+n-1, divisor d.
ChromaSpan(min, n, d) == ((min + n - 1) \div d) - (min \div d) + 1

DivX(ratio) == CASE ratio \in {"444", "440"} -> 1 [] ratio \in {"422", "420"} -> 2 [] OTHER -> 4
DivY(ratio) == IF ratio \in {"420", "440", "410"} THEN 2 ELSE 1

\* Bounds().Min of a source that is a sub-image: even and odd origins.
Origins == {0, 3}
Shifts == 0..2
ScanWidth == 2

Source(layout, ratio, w, h, minX, minY, off) ==
    LET cols == ChromaSpan(minX, w, DivX(ratio))
        rows == ChromaSpan(minY, h, DivY(ratio))
        planar == layout = "YCbCr"
    IN [layout |-> layout, w |-> w, h |-> h, minX |-> minX, minY |-> minY,
        pix |-> IF planar THEN <<>> ELSE Fill(Samples(layout), w * h, off),
        palette |-> IF layout = "Paletted" THEN newScannerPalette(PaletteColors)
                    ELSE <<>>,
        ratio |-> ratio,
        YStride |-> IF planar THEN w ELSE 0,
        CStride |-> IF planar THEN cols ELSE 0,
        Y |-> IF planar THEN Fill(Luma, w * h, off) ELSE <<>>,
        Cb |-> IF planar THEN Fill(ChromaB, cols * rows, off) ELSE <<>>,
        Cr |-> IF planar THEN Fill(ChromaR, cols * rows, off + 1) ELSE <<>>]

Sources ==
    {Source(l, r, w, h, mx, my, off) :
        l \in Layouts, r \in Ratios, w \in 1..ScanWidth, h \in 1..MaxDim,
        mx \in Origins, my \in Origins, off \in Shifts}

\* Only YCbCr has a ratio; only YCbCr and generic sources see their origin.
ScanSources ==
    {s \in Sources :
        /\ s.layout # "YCbCr" => s.ratio = "444"
        /\ s.layout \notin {"YCbCr", "generic"} => s.minX = 0 /\ s.minY = 0}

ScanInit ==
    /\ gen = JunkGen
    /\ stream = <<>>
    /\ pipe = <<>>
    /\ closed = TRUE
    /\ acc = <<>>
    /\ ps = [ParserInit EXCEPT !.pc = "idle"]
    /\ main = Idle
    /\ task = Idle
    /\ rcvd = <<>>
    /\ \E s \in ScanSources :
          \E x1 \in 0..(s.w - 1), y1 \in 0..(s.h - 1) :
             \E x2 \in (x1 + 1)..s.w, y2 \in (y1 + 1)..s.h :
                lib = [pc |-> "call", op |-> "scan", src |-> s,
                       x1 |-> x1, y1 |-> y1, x2 |-> x2, y2 |-> y2,
                       dst |-> <<>>, upper |-> <<>>, lower |-> <<>>]

\* The row at which the rectangle is cut in two: h/2 for the whole image.
Middle(l) == l.y1 + ((l.y2 - l.y1) \div 2)

\* src.scan(x1, y1, x2, y2, dst)
ScanRect ==
    /\ lib.pc = "call" /\ lib.op = "scan"
    /\ LibStep([lib EXCEPT !.pc = "whole",
                           !.dst = scan(lib.src, lib.x1, lib.y1, lib.x2, lib.y2)])

\* src.scan(x1, y1, x2, middle, dst)
ScanUpper ==
    /\ lib.pc = "whole"
    /\ LibStep([lib EXCEPT !.pc = "upper",
                           !.upper = scan(lib.src, lib.x1, lib.y1, lib.x2, Middle(lib))])

\* src.scan(x1, middle, x2, y2, dst)
ScanLower ==
    /\ lib.pc = "upper"
    /\ LibStep([lib EXCEPT !.pc = "done",
                           !.lower = scan(lib.src, lib.x1, Middle(lib), lib.x2, lib.y2)])

ScanNext == ScanRect \/ ScanUpper \/ ScanLower

ScanSpec == ScanInit /\ [][ScanNext]_vars

(***************************************************************************)
(* Claims about the scanner, checked under ScanSpec.                       *)
(***************************************************************************)
\* C13: scan tiling.  For every layout and every rectangle, in particular
\* the whole image cut at h/2, the buffer of one scan equals the buffer of
\* the scan of the upper part followed by the buffer of the scan of the
\* lower part.
C13_ScanTiling ==
    (lib.pc = "done" /\ lib.op = "scan") =>
        /\ lib.dst = lib.upper \o lib.lower
        /\ Len(lib.dst) = (lib.x2 - lib.x1) * (lib.y2 - lib.y1)

\* A whole 4:2:0 image with an odd origin: the cut falls between two rows
\* that share a chroma row, and the two parts differ.
C13_Witness ==
    /\ lib.pc = "done" /\ lib.op = "scan"
    /\ lib.src.layout = "YCbCr" /\ lib.src.ratio = "420" /\ lib.src.minY = 3
    /\ lib.x1 = 0 /\ lib.y1 = 0 /\ lib.x2 = lib.src.w /\ lib.y2 = lib.src.h
    /\ lib.src.h = MaxDim /\ lib.src.w = ScanWidth
    /\ lib.upper # <<>> /\ lib.lower # <<>> /\ Len(lib.upper) # Len(lib.lower)
    /\ lib.dst = lib.upper \o lib.lower

\* C14: after scan of any rectangle of any layout, every destination pixel
\* whose alpha byte is 0 has R, G and B equal to 0.
C14_TransparentIsBlack ==
    (lib.pc # "idle" /\ lib.op = "scan") =>
        \A k \in 1..Len(lib.dst) :
            lib.dst[k][4] = 0 => lib.dst[k] = <<0, 0, 0, 0>>

(***************************************************************************)
(* scan on images of one pixel: the conversion of a single source pixel,   *)
(* for the premultiplied layouts and for YCbCr.  An image.RGBA64 is also   *)
(* scanned through the generic routine, as a source of unknown type whose  *)
(* At(x, y).RGBA() returns its four 16-bit values.                         *)
(***************************************************************************)
Bytes == 0..255

\* 8-bit premultiplied pixels: every red and alpha byte; green and blue
\* follow from them.
RGBAPixels == {<<r, a - Min(r, a), (r + a) % 256, a>> : r \in Bytes, a \in Bytes}

\* 16-bit values at the ends of the range and around the byte boundaries.
Words == {0, 1, 128, 255, 256, 257, 511, 32767, 32768, 65279, 65280, 65281, 65534, 65535}

\* The eight bytes image.RGBA64 stores for the values r, g, b, a.
RGBA64Bytes(r, g, b, a) ==
    <<r \div 256, r % 256, g \div 256, g % 256, b \div 256, b % 256,
      a \div 256, a % 256>>

\* 16-bit premultiplied pixels: no colour above alpha.
RGBA64Pixels ==
    {RGBA64Bytes(t[1], Min(t[2], t[3]), t[3] - t[1], t[3]) :
        t \in {u \in Words \X {0, 511, 65535} \X Words : u[1] <= u[3]}}

\* Luma at the ends and in the middle of its range with every pair of
\* chroma bytes; every luma with the chroma bytes at their ends and middle.
LumaEdges == {0, 1, 64, 127, 128, 129, 192, 254, 255}
ChromaEdges == {0, 1, 127, 128, 129, 254, 255}
YCbCrPixels ==
    (LumaEdges \X Bytes \X Bytes) \cup (Bytes \X ChromaEdges \X ChromaEdges)

\* An image of one pixel with the stored bytes p.
OnePixel(layout, p) ==
    [layout |-> layout, w |-> 1, h |-> 1, minX |-> 0, minY |-> 0,
     pix |-> IF layout = "YCbCr" THEN <<>> ELSE <<p>>,
     palette |-> <<>>, ratio |-> "444",
     YStride |-> IF layout = "YCbCr" THEN 1 ELSE 0,
     CStride |-> IF layout = "YCbCr" THEN 1 ELSE 0,
     Y |-> IF layout = "YCbCr" THEN <<p[1]>> ELSE <<>>,
     Cb |-> IF layout = "YCbCr" THEN <<p[2]>> ELSE <<>>,
     Cr |-> IF layout = "YCbCr" THEN <<p[3]>> ELSE <<>>]

\* image.RGBA64.At(x, y).RGBA(): the four 16-bit values of the stored bytes.
RGBA64At(s) ==
    <<s[1] * 256 + s[2], s[3] * 256 + s[4], s[5] * 256 + s[6], s[7] * 256 + s[8]>>

PixelInit ==
    /\ gen = JunkGen
    /\ stream = <<>>
    /\ pipe = <<>>
    /\ closed = TRUE
    /\ acc = <<>>
    /\ ps = [ParserInit EXCEPT !.pc = "idle"]
    /\ main = Idle
    /\ task = Idle
    /\ rcvd = <<>>
    /\ \E c \in ({"RGBA"} \X RGBAPixels) \cup ({"RGBA64"} \X RGBA64Pixels)
                 \cup ({"YCbCr"} \X YCbCrPixels) :
          lib = [pc |-> "call", op |-> "pixel", layout |-> c[1], p |-> c[2],
                 out |-> <<>>, generic |-> <<>>]

\* scan of the whole one-pixel image, through the routine of its layout.
ScanPixel ==
    /\ lib.pc = "call" /\ lib.op = "pixel"
    /\ LibStep([lib EXCEPT !.pc = IF lib.layout = "RGBA64" THEN "scanned" ELSE "done",
                           !.out = scan(OnePixel(lib.layout, lib.p), 0, 0, 1, 1)[1]])

\* scan of the same pixels held by a source of unknown type: scanDefault.
ScanPixelGeneric ==
    /\ lib.pc = "scanned" /\ lib.op = "pixel"
    /\ LibStep([lib EXCEPT !.pc = "done",
                           !.generic = scan(OnePixel("generic", RGBA64At(lib.p)),
                                            0, 0, 1, 1)[1]])

PixelNext == ScanPixel \/ ScanPixelGeneric

PixelSpec == PixelInit /\ [][PixelNext]_vars

(***************************************************************************)
(* Claims about the conversion of one pixel, checked under PixelSpec.      *)
(***************************************************************************)
\* num / den rounded to the nearest integer (den > 0, num >= 0).
Round(num, den) == (2 * num + den) \div (2 * den)

\* C22 as stated: for a premultiplied 8-bit pixel alpha 0 gives (0,0,0,0),
\* alpha 255 a direct copy, and for alpha in 1..254 every output channel is
\* round(channel * 255 / alpha) and the output alpha is the source alpha.
C22_UnpremultiplyRounds ==
    (lib.pc = "done" /\ lib.op = "pixel" /\ lib.layout = "RGBA") =>
        LET a == lib.p[4] IN
        CASE a = 0 -> lib.out = <<0, 0, 0, 0>>
          [] a = 255 -> lib.out = lib.p
          [] OTHER -> /\ \A i \in 1..3 : lib.out[i] = Round(lib.p[i] * 255, a)
                      /\ lib.out[4] = a

\* C22 amended: alpha 0 gives (0,0,0,0), alpha 255 a direct copy; for alpha
\* in 1..254 the output alpha is the source alpha and every output channel
\* is the low byte of the quotient channel * 255 / alpha rounded down, the
\* product staying below 2^16.  For a channel not above alpha that is the
\* quotient itself, equal to the rounded value or one below it; for a
\* channel above alpha the quotient is above 255 and loses its high bits.
C22_UnpremultiplyTruncates ==
    (lib.pc = "done" /\ lib.op = "pixel" /\ lib.layout = "RGBA") =>
        LET a == lib.p[4] IN
        CASE a = 0 -> lib.out = <<0, 0, 0, 0>>
          [] a = 255 -> lib.out = lib.p
          [] OTHER ->
               /\ lib.out[4] = a
               /\ \A i \in 1..3 :
                     LET c == lib.p[i]
                         q == (c * 255) \div a
                     IN /\ c * 255 < 65536
                        /\ lib.out[i] = q % 256
                        /\ c <= a => /\ lib.out[i] = q
                                     /\ Round(c * 255, a) - q \in {0, 1}
                        /\ c > a => q > 255

\* Channel 1 at alpha 2: 127, where the rounded quotient is 128.
C22_Witness ==
    /\ lib.pc = "done" /\ lib.op = "pixel" /\ lib.layout = "RGBA"
    /\ lib.p[1] = 1 /\ lib.p[4] = 2
    /\ lib.out[1] = 127 /\ Round(lib.p[1] * 255, lib.p[4]) = 128
    /\ lib.out[4] = 2

\* C23: for every premultiplied 16-bit pixel (no colour above alpha) the
\* routine for image.RGBA64 and the generic routine produce the same four
\* bytes.
C23_RoutinesAgree ==
    (lib.pc = "done" /\ lib.op = "pixel" /\ lib.layout = "RGBA64") =>
        lib.out = lib.generic

\* The value the claim states for one channel of YCbCr: the sum shifted
\* right by 16 (an arithmetic shift: the quotient rounded down), then
\* brought into 0..255.
ClampShift(v) ==
    LET s == v \div 65536 IN IF s < 0 THEN 0 ELSE IF s > 255 THEN 255 ELSE s

\* The values of int32.
Int32(v) == (0 - 2147483647) - 1 <= v /\ v <= 2147483647

\* C24: for YCbCr with yy = Y * 0x10101 the output is
\* R = clamp((yy + 91881 * (Cr - 128)) >> 16),
\* G = clamp((yy - 22554 * (Cb - 128) - 46802 * (Cr - 128)) >> 16),
\* B = clamp((yy + 116130 * (Cb - 128)) >> 16), alpha 255, where a negative
\* sum gives 0 and a sum too large gives 255; every product, partial sum
\* and sum stays within the signed 32-bit range (within 26 bits, in fact).
C24_YCbCrConversion ==
    (lib.pc = "done" /\ lib.op = "pixel" /\ lib.layout = "YCbCr") =>
        LET yy == lib.p[1] * 65793
            cb == lib.p[2] - 128
            cr == lib.p[3] - 128
            sums == {yy, 91881 * cr, yy + 91881 * cr, 22554 * cb, 46802 * cr,
                     yy - 22554 * cb, yy - 22554 * cb - 46802 * cr,
                     116130 * cb, yy + 116130 * cb}
        IN /\ lib.out = <<ClampShift(yy + 91881 * cr),
                          ClampShift(yy - 22554 * cb - 46802 * cr),
                          ClampShift(yy + 116130 * cb), 255>>
           /\ \A v \in sums : Int32(v) /\ (0 - 33554432) < v /\ v < 33554432
           /\ yy + 91881 * cr < 0 => lib.out[1] = 0
           /\ yy + 116130 * cb >= 16777216 => lib.out[3] = 255

\* One pixel with red saturated at 255 (sum above 24 bits) and blue
\* saturated at 0 (negative sum).
C24_Witness ==
    /\ lib.pc = "done" /\ lib.op = "pixel" /\ lib.layout = "YCbCr"
    /\ lib.p = <<128, 0, 255>>
    /\ lib.p[1] * 65793 + 91881 * (lib.p[3] - 128) >= 16777216
    /\ lib.p[1] * 65793 + 116130 * (lib.p[2] - 128) < 0
    /\ lib.out[1] = 255 /\ lib.out[3] = 0 /\ lib.out[4] = 255

(***************************************************************************)
(* parallel(0, n, fn) as Blur and Sharpen call it: fn ranges over the      *)
(* channel of indices it is given (effects.go: for y := range ys).  The    *)
(* scheduler puts the indices 0..n-1 into a closed channel, starts         *)
(* min(GOMAXPROCS, n) workers that each run fn on that channel, and waits  *)
(* for all of them.                                                        *)
(***************************************************************************)
MaxProcs == 2

Workers == 1..(MaxProcs + 1)

\* The number of workers parallel starts.
Procs(n, gomaxprocs) == Min(gomaxprocs, n)

ParInit ==
    /\ gen = JunkGen
    /\ stream = <<>>
    /\ pipe = <<>>
    /\ closed = TRUE
    /\ acc = <<>>
    /\ ps = [ParserInit EXCEPT !.pc = "idle"]
    /\ main = Idle
    /\ task = Idle
    /\ rcvd = <<>>
    /\ \E n \in 0..MaxDim, g \in 1..MaxProcs :
          lib = [pc |-> "spawn", op |-> "parallel", n |-> n,
                 procs |-> Procs(n, g), started |-> 0,
                 queue |-> [k \in 1..n |-> k - 1],
                 wpc |-> [w \in Workers |-> "absent"],
                 got |-> [w \in Workers |-> <<>>]]

\* go func() { defer wg.Done(); fn(c) }(): the next worker starts.
StartWorker ==
    /\ lib.pc = "spawn" /\ lib.op = "parallel"
    /\ lib.started < lib.procs
    /\ LibStep([lib EXCEPT !.started = lib.started + 1,
                           !.wpc[lib.started + 1] = "running"])

\* All workers are started: the caller goes on to wg.Wait().
StartWait ==
    /\ lib.pc = "spawn" /\ lib.op = "parallel"
    /\ lib.started = lib.procs
    /\ LibStep([lib EXCEPT !.pc = "wait"])

\* Mutant of Receive: the index is read but stays in the channel.
Receive_Keeps(w) ==
    /\ lib.op = "parallel" /\ lib.wpc[w] = "running"
    /\ lib.queue # <<>>
    /\ Len(lib.got[w]) < lib.n
    /\ LibStep([lib EXCEPT !.got[w] = Append(lib.got[w], Head(lib.queue))])

\* for y := range ys: worker w receives the next index and works on it.
Receive(w) ==
    /\ lib.op = "parallel" /\ lib.wpc[w] = "running"
    /\ lib.queue # <<>>
    /\ LibStep([lib EXCEPT !.got[w] = Append(lib.got[w], Head(lib.queue)),
                           !.queue = Tail(lib.queue)])

\* The range loop ends on the closed, empty channel: fn returns, wg.Done().
Finish(w) ==
    /\ lib.op = "parallel" /\ lib.wpc[w] = "running"
    /\ lib.queue = <<>>
    /\ LibStep([lib EXCEPT !.wpc[w] = "done"])

\* wg.Wait() returns; parallel returns to its caller.
WaitReturn ==
    /\ lib.pc = "wait" /\ lib.op = "parallel"
    /\ \A w \in Workers : lib.wpc[w] \in {"absent", "done"}
    /\ LibStep([lib EXCEPT !.pc = "returned"])

WorkerReceive == \E w \in Workers : Receive(w)
WorkerFinish == \E w \in Workers : Finish(w)

ParNext == StartWorker \/ StartWait \/ WorkerReceive \/ WorkerFinish \/ WaitReturn

ParSpec == ParInit /\ [][ParNext]_vars

\* How often index i was delivered, over all workers.
Deliveries(i) ==
    Cardinality({<<w, k>> \in Workers \X (1..MaxDim + 1) :
                    k <= Len(lib.got[w]) /\ lib.got[w][k] = i})

\* C15: parallel(0, n, body) returns only after every worker has completed,
\* and then every index of 0..n-1 has been delivered to exactly one worker
\* exactly once; at no time is an index delivered twice or an index outside
\* the range delivered, and no more than n workers are started.
C15_PartitionAndJoin ==
    (lib.pc # "idle" /\ lib.op = "parallel") =>
        /\ lib.pc = "returned" =>
              /\ \A w \in Workers : lib.wpc[w] \in {"absent", "done"}
              /\ \A w \in Workers : lib.wpc[w] = "absent" <=> w > lib.procs
              /\ \A i \in 0..(lib.n - 1) : Deliveries(i) = 1
        /\ \A i \in 0..MaxDim : Deliveries(i) <= (IF i < lib.n THEN 1 ELSE 0)
        /\ lib.started <= lib.n
        /\ Cardinality({w \in Workers : lib.wpc[w] # "absent"}) = lib.started

C15_Witness ==
    /\ lib.pc = "returned" /\ lib.op = "parallel"
    /\ lib.n = MaxDim /\ lib.procs = MaxProcs
    /\ lib.got[1] # <<>> /\ lib.got[MaxProcs] # <<>>
    /\ \A i \in 0..(lib.n - 1) : Deliveries(i) = 1

(***************************************************************************)
(* The task bodies of blurHorizontal, blurVertical and Sharpen run by the  *)
(* workers of parallel (effects.go).  Every worker allocates its scan line *)
(* when its body starts, then for every index it receives scans the row    *)
(* (the column, in the vertical pass) into the scan line and writes the    *)
(* destination: pixel by pixel in the passes of Blur, where a pixel whose  *)
(* accumulated alpha is zero is not written, byte by byte in Sharpen.      *)
(* wrote records for every byte of dst.Pix who wrote it, touched for every *)
(* scan line who used it.                                                  *)
(***************************************************************************)
Passes == {"horizontal", "vertical", "sharpen"}

\* dst.Stride of image.NewNRGBA(image.Rect(0, 0, src.w, src.h)).
Stride(l) == 4 * l.w

\* The writes one index makes: a pixel per x (per y), or a byte per i.
Units(l) ==
    CASE l.kind = "horizontal" -> l.w
      [] l.kind = "vertical" -> l.h
      [] OTHER -> l.w * 4

\* Mutant of DstBytes: the offset of the vertical pass computed without
\* the stride.
DstBytes_NoStride(l, idx, pos) ==
    CASE l.kind = "horizontal" -> {idx * Stride(l) + pos * 4 + k : k \in 0..3}
      [] l.kind = "vertical" -> {pos * 4 + idx * 4 + k : k \in 0..3}
      [] OTHER -> {idx * Stride(l) + pos}

\* The bytes of dst.Pix written for index idx at position pos of its line:
\* d := dst.Pix[j : j+4] with j := y*dst.Stride + x*4, or dst.Pix[j].
DstBytes(l, idx, pos) ==
    CASE l.kind = "horizontal" -> {idx * Stride(l) + pos * 4 + k : k \in 0..3}
      [] l.kind = "vertical" -> {pos * Stride(l) + idx * 4 + k : k \in 0..3}
      [] OTHER -> {idx * Stride(l) + pos}

\* The scan line of worker w: scanLine := make([]uint8, ...) inside the body.
LineOf(w) == w

PassInit ==
    /\ gen = JunkGen
    /\ stream = <<>>
    /\ pipe = <<>>
    /\ closed = TRUE
    /\ acc = <<>>
    /\ ps = [ParserInit EXCEPT !.pc = "idle"]
    /\ main = Idle
    /\ task = Idle
    /\ rcvd = <<>>
    /\ \E kind \in Passes, d \in Dims, g \in 1..MaxProcs :
          LET n == IF kind = "vertical" THEN d[1] ELSE d[2] IN
          lib = [pc |-> "spawn", op |-> "parallel", kind |-> kind,
                 w |-> d[1], h |-> d[2], n |-> n,
                 procs |-> Procs(n, g), started |-> 0,
                 queue |-> [k \in 1..n |-> k - 1],
                 wpc |-> [w \in Workers |-> "absent"],
                 got |-> [w \in Workers |-> <<>>],
                 pos |-> [w \in Workers |-> 0],
                 wrote |-> [j \in 0..(d[1] * d[2] * 4 - 1) |-> {}],
                 touched |-> [b \in Workers |-> {}]]

\* for y := range ys: worker w receives the next index.
BodyReceive(w) ==
    /\ lib.op = "parallel" /\ lib.wpc[w] = "running"
    /\ lib.queue # <<>>
    /\ LibStep([lib EXCEPT !.got[w] = Append(lib.got[w], Head(lib.queue)),
                           !.queue = Tail(lib.queue),
                           !.wpc[w] = "scan"])

\* src.scan(0, y, src.w, y+1, scanLine): the worker fills its scan line.
BodyScan(w) ==
    /\ lib.op = "parallel" /\ lib.wpc[w] = "scan"
    /\ LibStep([lib EXCEPT !.touched[LineOf(w)] = lib.touched[LineOf(w)] \cup {w},
                           !.pos[w] = 0,
                           !.wpc[w] = "write"])

\* One pass of the loop over the line: the destination bytes are written,
\* or left as they are when the accumulated alpha is zero (Blur only).
BodyWrite(w) ==
    /\ lib.op = "parallel" /\ lib.wpc[w] = "write"
    /\ lib.pos[w] < Units(lib)
    /\ \E stored \in IF lib.kind = "sharpen" THEN {TRUE} ELSE BOOLEAN :
          LET idx == lib.got[w][Len(lib.got[w])]
              bytes == IF stored THEN DstBytes(lib, idx, lib.pos[w]) ELSE {}
          IN LibStep([lib EXCEPT
                 !.pos[w] = lib.pos[w] + 1,
                 !.touched[LineOf(w)] = lib.touched[LineOf(w)] \cup {w},
                 !.wrote = [j \in DOMAIN lib.wrote |->
                               IF j \in bytes THEN lib.wrote[j] \cup {<<w, idx>>}
                               ELSE lib.wrote[j]]])

\* The loop over the line is through: back to the range over the channel.
BodyNext(w) ==
    /\ lib.op = "parallel" /\ lib.wpc[w] = "write"
    /\ lib.pos[w] = Units(lib)
    /\ LibStep([lib EXCEPT !.wpc[w] = "running"])

WorkerTakes == \E w \in Workers : BodyReceive(w)
WorkerScans == \E w \in Workers : BodyScan(w)
WorkerWrites == \E w \in Workers : BodyWrite(w)
WorkerLoops == \E w \in Workers : BodyNext(w)

PassNext ==
    \/ StartWorker \/ StartWait \/ WorkerTakes \/ WorkerScans \/ WorkerWrites
    \/ WorkerLoops \/ WorkerFinish \/ WaitReturn

PassSpec == PassInit /\ [][PassNext]_vars

\* Row and column of the pixel that holds byte j of dst.Pix.
RowOf(l, j) == j \div Stride(l)
ColOf(l, j) == (j % Stride(l)) \div 4

\* C25: during both passes of Blur and during Sharpen, under any
\* interleaving of the workers, no byte of the destination is written by
\* more than one worker (nor for more than one index); the worker that
\* received row y writes only bytes of row y, the worker that received
\* column x only bytes of column x; and every scan line is used by the
\* worker that allocated it and by no other.
C25_DisjointWrites ==
    (lib.pc # "idle" /\ lib.op = "parallel") =>
        /\ \A j \in DOMAIN lib.wrote :
              /\ Cardinality(lib.wrote[j]) <= 1
              /\ \A e \in lib.wrote[j] :
                    /\ e[2] = (IF lib.kind = "vertical" THEN ColOf(lib, j)
                               ELSE RowOf(lib, j))
                    /\ \E k \in 1..Len(lib.got[e[1]]) : lib.got[e[1]][k] = e[2]
        /\ \A b \in Workers : lib.touched[b] \subseteq {b}
        /\ \A w \in Workers : lib.wpc[w] \in {"scan", "write"} =>
              \A v \in Workers \ {w} :
                 lib.wpc[v] \in {"scan", "write"} =>
                    lib.got[w][Len(lib.got[w])] # lib.got[v][Len(lib.got[v])]

\* The vertical pass of an image of two rows returned, two workers having
\* written a column each, both rows of it.
C25_Witness ==
    /\ lib.pc = "returned" /\ lib.op = "parallel" /\ lib.kind = "vertical"
    /\ lib.h = 2 /\ lib.w = 2
    /\ lib.got[1] # <<>> /\ lib.got[2] # <<>>
    /\ \A j \in DOMAIN lib.wrote : Cardinality(lib.wrote[j]) = 1
    /\ lib.wrote[0] # lib.wrote[4] /\ lib.wrote[0] = lib.wrote[8]
    /\ lib.touched[1] = {1} /\ lib.touched[2] = {2}

(***************************************************************************)
(* Mosaic (effects.go).  A rectangle is [x0, y0, x1, y1], half-open, as    *)
(* image.Rect returns it (x0 <= x1, y0 <= y1).  The result is an NRGBA     *)
(* image with its own bounds: [minX, minY, w, h, pix].  draw.Draw with     *)
(* draw.Src between NRGBA images copies the pixels of the rectangle.       *)
(***************************************************************************)
blockSize == 10
mosaicSize == 4

\* img.Bounds() of the images of the model: the origin is (0, 0).
Bounds(img) == [x0 |-> 0, y0 |-> 0, x1 |-> img.w, y1 |-> img.h]

Empty(r) == r.x0 >= r.x1 \/ r.y0 >= r.y1

\* image.Rectangle.Intersect: the zero rectangle when the result is empty.
Intersect(r, b) ==
    LET c == [x0 |-> Max(r.x0, b.x0), y0 |-> Max(r.y0, b.y0),
              x1 |-> Min(r.x1, b.x1), y1 |-> Min(r.y1, b.y1)]
    IN IF Empty(c) THEN [x0 |-> 0, y0 |-> 0, x1 |-> 0, y1 |-> 0] ELSE c

isValidRectangle(rect) == rect.x1 - rect.x0 > 0 /\ rect.y1 - rect.y0 > 0

\* c * a / 0xffff in uint32 arithmetic (c, a 16-bit), without a product
\* above 2^31.
Premultiply16(c, a) ==
    LET u == c * (a \div 256)
        rest == (u % 65535) * 256 + c * (a % 256)
    IN (u \div 65535) * 256 + (rest \div 65535)

\* img.At(x, y).RGBA() of an NRGBA image; the zero colour outside its bounds.
RGBAAt(img, x, y) ==
    IF x < 0 \/ x >= img.w \/ y < 0 \/ y >= img.h THEN <<0, 0, 0, 0>>
    ELSE LET p == At(img, x, y)
             a == p[4] * 257
         IN <<Premultiply16(p[1] * 257, a), Premultiply16(p[2] * 257, a),
              Premultiply16(p[3] * 257, a), a>>

\* getAverageColor: the four loops visit every pixel of the block once.  The
\* uint32 totals cannot wrap: at most blockSize * blockSize * 65535.
RECURSIVE BlockTotal(_, _, _, _)
BlockTotal(img, x, y, k) ==
    IF k = blockSize * blockSize THEN <<0, 0, 0, 0>>
    ELSE LET c == RGBAAt(img, x + (k % blockSize), y + (k \div blockSize))
             t == BlockTotal(img, x, y, k + 1)
         IN [i \in 1..4 |-> t[i] + c[i]]

getAverageColor(img, x, y) ==
    LET total == BlockTotal(img, x, y, 0)
        totalPixels == (blockSize \div mosaicSize) * (blockSize \div mosaicSize)
    IN [i \in 1..4 |-> Uint8((total[i] \div totalPixels) \div 256)]

\* The corner of the block of the loops over row and col that holds (x, y).
BlockOrigin(rect, x, y) ==
    [x |-> rect.x0 + ((x - rect.x0) \div blockSize) * blockSize,
     y |-> rect.y0 + ((y - rect.y0) \div blockSize) * blockSize]

\* The branch of Mosaic for an invalid rectangle: a copy of the image.
MosaicCopyOf(img) ==
    [minX |-> 0, minY |-> 0, w |-> img.w, h |-> img.h,
     pix |-> [k \in 1..(img.w * img.h) |-> img.pix[k]]]

\* The branch for a valid rectangle: an image with the bounds of rect,
\* every block of it filled with the average colour of that block.
MosaicBlocksOf(img, rect) ==
    LET w == rect.x1 - rect.x0
        h == rect.y1 - rect.y0
    IN [minX |-> rect.x0, minY |-> rect.y0, w |-> w, h |-> h,
        pix |-> [k \in 1..(w * h) |->
                    LET b == BlockOrigin(rect, rect.x0 + ((k - 1) % w),
                                         rect.y0 + ((k - 1) \div w))
                    IN getAverageColor(img, b.x, b.y)]]

Mosaic(img, r) ==
    LET rect == Intersect(r, Bounds(img)) IN
    IF ~isValidRectangle(rect) THEN MosaicCopyOf(img) ELSE MosaicBlocksOf(img, rect)

\* Images whose pixels run through the canonical samples.
MosaicImages ==
    {[w |-> d[1], h |-> d[2], pix |-> Fill(Samples("NRGBA"), d[1] * d[2], off)] :
        d \in Dims, off \in Shifts}

\* Rectangles around, across and inside the image.
Rects ==
    {r \in [x0 : (0 - 1)..(MaxDim + 1), y0 : (0 - 1)..(MaxDim + 1),
            x1 : (0 - 1)..(MaxDim + 1), y1 : (0 - 1)..(MaxDim + 1)] :
        r.x0 <= r.x1 /\ r.y0 <= r.y1}

\* Images of one colour that hold whole blocks, and the rectangles inside
\* them whose corners lie on the block grid.
MaxBlocks == 2

UniformImages ==
    {[w |-> d[1] * blockSize, h |-> d[2] * blockSize,
      pix |-> [k \in 1..(d[1] * d[2] * blockSize * blockSize) |-> c]] :
        d \in {e \in (1..MaxBlocks) \X (1..MaxBlocks) : e[1] * e[2] <= MaxBlocks},
        c \in Palette}

BlockRects(img) ==
    {r \in [x0 : {blockSize * k : k \in 0..MaxBlocks},
            y0 : {blockSize * k : k \in 0..MaxBlocks},
            x1 : {blockSize * k : k \in 0..MaxBlocks},
            y1 : {blockSize * k : k \in 0..MaxBlocks}] :
        r.x0 < r.x1 /\ r.y0 < r.y1 /\ r.x1 <= img.w /\ r.y1 <= img.h}

MosaicInit ==
    /\ gen = JunkGen
    /\ stream = <<>>
    /\ pipe = <<>>
    /\ closed = TRUE
    /\ acc = <<>>
    /\ ps = [ParserInit EXCEPT !.pc = "idle"]
    /\ main = Idle
    /\ task = Idle
    /\ rcvd = <<>>
    /\ \/ \E img \in MosaicImages, r \in Rects :
             lib = [pc |-> "call", op |-> "Mosaic", img |-> img, rect |-> r,
                    clipped |-> r, out |-> Nil]
       \/ \E img \in UniformImages :
             \E r \in BlockRects(img) :
                lib = [pc |-> "call", op |-> "Mosaic", img |-> img, rect |-> r,
                       clipped |-> r, out |-> Nil]

\* rect = rect.Intersect(img.Bounds())
MosaicClip ==
    /\ lib.pc = "call" /\ lib.op = "Mosaic"
    /\ LibStep([lib EXCEPT !.pc = "clipped",
                           !.clipped = Intersect(lib.rect, Bounds(lib.img))])

\* if !isValidRectangle(rect): return a copy of the input image.
MosaicCopy ==
    /\ lib.pc = "clipped" /\ lib.op = "Mosaic"
    /\ ~isValidRectangle(lib.clipped)
    /\ LibStep([lib EXCEPT !.pc = "done", !.out = MosaicCopyOf(lib.img)])

\* The loops over the blocks of the clipped rectangle; return output.
MosaicApply ==
    /\ lib.pc = "clipped" /\ lib.op = "Mosaic"
    /\ isValidRectangle(lib.clipped)
    /\ LibStep([lib EXCEPT !.pc = "done",
                           !.out = MosaicBlocksOf(lib.img, lib.clipped)])

MosaicNext == MosaicClip \/ MosaicCopy \/ MosaicApply

MosaicSpec == MosaicInit /\ [][MosaicNext]_vars

\* The rectangle lies within the bounds of the image.
Within(r, img) == 0 <= r.x0 /\ r.x1 <= img.w /\ 0 <= r.y0 /\ r.y1 <= img.h

\* C16: whenever the rectangle is not within the image bounds, also when
\* it overlaps the image in part, Mosaic returns a copy of the source image:
\* the same bounds and the same pixels.
C16_CopyUnlessWithin ==
    (lib.pc = "done" /\ lib.op = "Mosaic" /\ ~Within(lib.rect, lib.img)) =>
        lib.out = MosaicCopyOf(lib.img)

\* Every pixel of img has the colour of its first pixel.
Uniform(img) == \A k \in 1..Len(img.pix) : img.pix[k] = img.pix[1]

\* C30: Mosaic fills each block with the average colour of the source
\* pixels of the block: for an image of one colour and a rectangle inside it
\* whose sides are multiples of the block size, the result has the bounds of
\* the rectangle and every pixel of it has exactly the colour of the image.
C30_UniformKept ==
    (lib.pc = "done" /\ lib.op = "Mosaic" /\ Uniform(lib.img)
        /\ Within(lib.rect, lib.img) /\ isValidRectangle(lib.rect)
        /\ (lib.rect.x1 - lib.rect.x0) % blockSize = 0
        /\ (lib.rect.y1 - lib.rect.y0) % blockSize = 0) =>
        /\ lib.out.w = lib.rect.x1 - lib.rect.x0
        /\ lib.out.h = lib.rect.y1 - lib.rect.y0
        /\ \A k \in 1..Len(lib.out.pix) : lib.out.pix[k] = lib.img.pix[1]

====
